---- MODULE Spec2Model ----
(***************************************************************************)
(* A model of the block tokenizer and inline scanner of mrkdwn_analysis    *)
(* (src/mrkdwn_analysis/markdown_analyzer.py).                             *)
(*                                                                         *)
(* A text is a sequence of characters (one-character strings); a document  *)
(* is the list text.split(NL) of its lines.    Regular expressions are     *)
(* operators on character sequences that decide what re.match decides.     *)
(* Line numbers are 1-indexed, the cursor pos is 0-indexed as in the code: *)
(* the line under the cursor is lines[pos + 1].                            *)
(***************************************************************************)
EXTENDS Integers, Sequences, FiniteSets, TLC

\* --------------------------------------------------------------------------
\* Bounds of the model
\* --------------------------------------------------------------------------

\* longest document, in lines
MaxLines == 3

\* longest document with links to check, in lines
MaxLinkLines == 2

\* the analyses a run of repeated analyses remembers
MaxParses == 2

\* deepest max_depth a WebsiteScraper is built with
MaxDepth == 1

\* most a elements with href in one page
MaxHrefs == 2

\* the token list is cut off here: it only grows beyond the number of lines
\* when the main loop stops advancing
MaxTokens == MaxLines + 2

\* --------------------------------------------------------------------------
\* Characters and strings
\* --------------------------------------------------------------------------

NL == "\n"
TAB == "\t"

\* the backtick character (a TLA+ string cannot hold one): a value that is no
\* other character
BT == "backtick"

\* what str.strip() removes and what the class of whitespace matches
Ws == {" ", TAB, NL}

LowerSeq == <<"a","b","c","d","e","f","g","h","i","j","k","l","m",
              "n","o","p","q","r","s","t","u","v","w","x","y","z">>
UpperSeq == <<"A","B","C","D","E","F","G","H","I","J","K","L","M",
              "N","O","P","Q","R","S","T","U","V","W","X","Y","Z">>

Range(f) == {f[i] : i \in DOMAIN f}

\* [a-zA-Z]
Letter == Range(LowerSeq) \cup Range(UpperSeq)

\* \d
Digit == {"0","1","2","3","4","5","6","7","8","9"}

\* the default of BlockToken for level and line
None == 0

Min(a, b) == IF a <= b THEN a ELSE b
Max(a, b) == IF a >= b THEN a ELSE b

\* the length of the longest run of characters of S in s that starts at i
RECURSIVE RunLen(_, _, _)
RunLen(s, i, S) ==
    IF i > Len(s) \/ s[i] \notin S THEN 0 ELSE 1 + RunLen(s, i + 1, S)

\* s[i:] in Python terms, with i a 1-based index
From(s, i) == SubSeq(s, i, Len(s))

\* the length of the longest run of characters of S that ends s
RECURSIVE TailRun(_, _)
TailRun(s, S) ==
    IF s = <<>> \/ s[Len(s)] \notin S THEN 0
    ELSE 1 + TailRun(SubSeq(s, 1, Len(s) - 1), S)

rstrip(s) == SubSeq(s, 1, Len(s) - TailRun(s, Ws))
lstrip(s) == From(s, RunLen(s, 1, Ws) + 1)

\* str.strip()
strip(s) == rstrip(lstrip(s))

\* str.startswith
startswith(s, p) == Len(s) >= Len(p) /\ SubSeq(s, 1, Len(p)) = p

\* str.endswith
endswith(s, p) == Len(s) >= Len(p) /\ SubSeq(s, Len(s) - Len(p) + 1, Len(s)) = p

\* the first index >= i at which s holds a character of S, Len(s) + 1 if none
RECURSIVE Find(_, _, _)
Find(s, i, S) ==
    IF i > Len(s) THEN Len(s) + 1
    ELSE IF s[i] \in S THEN i ELSE Find(s, i + 1, S)

\* str.split(c): the fragments between the occurrences of c
RECURSIVE split(_, _)
split(s, c) ==
    LET k == Find(s, 1, {c})
    IN  IF k > Len(s) THEN <<s>>
        ELSE <<SubSeq(s, 1, k - 1)>> \o split(From(s, k + 1), c)

\* sep.join(parts)
RECURSIVE join(_, _)
join(parts, sep) ==
    IF parts = <<>> THEN <<>>
    ELSE IF Len(parts) = 1 THEN parts[1]
    ELSE parts[1] \o <<sep>> \o join(Tail(parts), sep)

\* str.lower() on the letters of the model
lowerChar(c) ==
    IF c \in Range(UpperSeq)
    THEN LowerSeq[CHOOSE i \in DOMAIN UpperSeq : UpperSeq[i] = c]
    ELSE c

lower(s) == [i \in DOMAIN s |-> lowerChar(s[i])]

\* --------------------------------------------------------------------------
\* The regular expressions of MarkdownParser, as re.match on one line
\* --------------------------------------------------------------------------

\* three dashes, then whitespace only
FRONTMATTER_RE(s) ==
    /\ startswith(s, <<"-", "-", "-">>)
    /\ RunLen(s, 4, Ws) = Len(s) - 3

\* one to six hashes, whitespace, any text: the number of hashes that
\* group 1 holds, 0 if no match
ATX_HEADER_RE(s) ==
    LET h == RunLen(s, 1, {"#"})
    IN  IF h >= 1 /\ h <= 6 /\ h < Len(s) /\ s[h + 1] \in Ws THEN h ELSE 0

\* group 2 of ATX_HEADER_RE
ATX_Text(s) == From(s, ATX_HEADER_RE(s) + RunLen(s, ATX_HEADER_RE(s) + 1, Ws) + 1)

\* one or more c, then whitespace only
RunThenWs(s, c) ==
    LET r == RunLen(s, 1, {c})
    IN  r >= 1 /\ RunLen(s, r + 1, Ws) = Len(s) - r

\* one or more =, then whitespace only
SETEXT_H1_RE(s) == RunThenWs(s, "=")

\* one or more -, then whitespace only
SETEXT_H2_RE(s) == RunThenWs(s, "-")

\* three backticks, then no further backtick
FENCE_RE(s) ==
    /\ startswith(s, <<BT, BT, BT>>)
    /\ Find(s, 4, {BT}) > Len(s)

\* a line that starts with >
BLOCKQUOTE_RE(s) == Len(s) >= 1 /\ s[1] = ">"

\* group 2 of BLOCKQUOTE_RE: the text after > and at most one whitespace
BLOCKQUOTE_Text(s) == IF Len(s) >= 2 /\ s[2] \in Ws THEN From(s, 3) ELSE From(s, 2)

\* whitespace, digits, a dot, whitespace (one at least), any text: the index
\* at which group 1 starts, 0 if no match
ORDERED_LIST_RE(s) ==
    LET w == RunLen(s, 1, Ws)
        d == RunLen(s, w + 1, Digit)
        v == RunLen(s, w + d + 2, Ws)
    IN  IF d >= 1 /\ w + d + 1 <= Len(s) /\ s[w + d + 1] = "." /\ v >= 1
        THEN w + d + 2 + v ELSE 0

\* whitespace, one of - + *, whitespace (one at least), any text: the index
\* at which group 1 starts, 0 if no match
UNORDERED_LIST_RE(s) ==
    LET w == RunLen(s, 1, Ws)
        v == RunLen(s, w + 2, Ws)
    IN  IF w + 1 <= Len(s) /\ s[w + 1] \in {"-", "+", "*"} /\ v >= 1
        THEN w + 2 + v ELSE 0

\* three or more of one of * - _, then whitespace only
HR_RE(s) ==
    \E c \in {"*", "-", "_"} :
        LET r == RunLen(s, 1, {c})
        IN  r >= 3 /\ RunLen(s, r + 1, Ws) = Len(s) - r

\* one cell of a table separator line: dashes, between optional colons and
\* optional whitespace
SeparatorCell(p) ==
    LET t == strip(p)
        a == IF Len(t) >= 1 /\ t[1] = ":" THEN 1 ELSE 0
        d == RunLen(t, a + 1, {"-"})
        z == IF a + d + 1 <= Len(t) /\ t[a + d + 1] = ":" THEN 1 ELSE 0
    IN  d >= 1 /\ a + d + z = Len(t)

\* an optional pipe, one or more cells each followed by a pipe, a last cell,
\* an optional pipe, whitespace.
\* No cell holds a pipe, so the line matches iff its fragments between the
\* pipes, less an empty first one (the optional leading pipe) and a blank
\* last one (the optional trailing pipe), are at least two cells.
TABLE_SEPARATOR_RE(s) ==
    LET parts == split(s, "|")
        p1 == IF Len(parts) >= 2 /\ parts[1] = <<>> THEN Tail(parts) ELSE parts
        p2 == IF Len(p1) >= 3 /\ strip(p1[Len(p1)]) = <<>>
              THEN SubSeq(p1, 1, Len(p1) - 1) ELSE p1
    IN  Len(p2) >= 2 /\ \A i \in 1..Len(p2) : SeparatorCell(p2[i])

\* an opening tag (<, letters, anything but >, >) or the comment opener
HTML_BLOCK_START(s) ==
    \/ /\ Len(s) >= 3
       /\ s[1] = "<"
       /\ s[2] \in Letter
       /\ Find(s, 3, {">"}) <= Len(s)
    \/ startswith(s, <<"<", "!", "-", "-">>)

\* the comment closer, then whitespace only, searched in the line
HTML_BLOCK_END_COMMENT(s) == endswith(rstrip(s), <<"-", "-", ">">>)

\* --------------------------------------------------------------------------
\* Tokens
\* --------------------------------------------------------------------------

\* the meta of a token built without one
NoMeta == <<>>

\* Python None where a string may stand (the language of a code block)
NoneStr == <<"None">>

BlockToken(type_, content, level, meta, line) ==
    [type |-> type_, content |-> content, level |-> level, meta |-> meta, line |-> line]

\* what a block rule returns to the main loop: the new cursor, the tokens it
\* appended, and whether it raised
Result(newpos, toks) == [pos |-> newpos, toks |-> toks, raised |-> FALSE, line |-> None]

\* raise ValueError("Unclosed code fence starting at line ...")
Raised(newpos, line) == [pos |-> newpos, toks |-> <<>>, raised |-> TRUE, line |-> line]

\* not line.strip()
Blank(line) == strip(line) = <<>>

\* --------------------------------------------------------------------------
\* The block rules of MarkdownParser; p is the cursor (0-based) at entry
\* --------------------------------------------------------------------------

starts_new_block(line) ==
    \/ ATX_HEADER_RE(line) > 0
    \/ FRONTMATTER_RE(line)
    \/ FENCE_RE(line)
    \/ BLOCKQUOTE_RE(line)
    \/ ORDERED_LIST_RE(line) > 0
    \/ UNORDERED_LIST_RE(line) > 0
    \/ HR_RE(line)
    \/ SETEXT_H1_RE(line)
    \/ SETEXT_H2_RE(line)
    \/ HTML_BLOCK_START(line)

\* line.startswith("    ") or line.startswith("\t")
Indented(line) == startswith(line, <<" ", " ", " ", " ">>) \/ startswith(line, <<TAB>>)

RECURSIVE IndentedEnd(_, _)
IndentedEnd(ls, i) ==
    IF i < Len(ls) /\ Indented(ls[i + 1]) THEN IndentedEnd(ls, i + 1) ELSE i

\* parse_indented_code_block emitting a token only for two lines or more
parse_indented_code_block_drop1(ls, p) ==
    LET e == IndentedEnd(ls, p)
        body == [k \in 1..(e - p) |-> From(ls[p + k], 5)]
    IN  Result(e, IF Len(body) > 1
                  THEN <<BlockToken("code", join(body, NL), None,
                                    [language |-> NoneStr, code_type |-> "indented"], p + 1)>>
                  ELSE <<>>)

parse_indented_code_block(ls, p) ==
    LET e == IndentedEnd(ls, p)
        body == [k \in 1..(e - p) |->
                    IF startswith(ls[p + k], <<" ", " ", " ", " ">>)
                    THEN From(ls[p + k], 5) ELSE From(ls[p + k], 2)]
    IN  Result(e, IF body # <<>>
                  THEN <<BlockToken("code", join(body, NL), None,
                                    [language |-> NoneStr, code_type |-> "indented"], p + 1)>>
                  ELSE <<>>)

is_html_block_start(line) == HTML_BLOCK_START(strip(line))

\* the cursor after the loop of parse_html_block, entered at i < Len(ls)
RECURSIVE HtmlEnd(_, _, _)
HtmlEnd(ls, i, comment_mode) ==
    IF comment_mode /\ HTML_BLOCK_END_COMMENT(ls[i + 1]) THEN i + 1
    ELSE IF i + 1 < Len(ls)
         THEN IF Blank(ls[i + 2]) THEN i + 1 ELSE HtmlEnd(ls, i + 1, comment_mode)
         ELSE i + 1

parse_html_block(ls, p) ==
    LET comment_mode == startswith(strip(ls[p + 1]), <<"<", "!", "-", "-">>)
        e == HtmlEnd(ls, p, comment_mode)
    IN  Result(e, <<BlockToken("html_block", join(SubSeq(ls, p + 1, e), NL), None, NoMeta, p + 1)>>)

is_table_start(ls, p) ==
    /\ p + 1 < Len(ls)
    /\ "|" \in Range(strip(ls[p + 1]))
    /\ "|" \in Range(strip(ls[p + 2]))
    /\ TABLE_SEPARATOR_RE(strip(ls[p + 2]))

\* parse_row dropping every empty fragment, the interior ones too
parse_row_dropempty(row) ==
    LET parts == split(strip(row), "|")
        kept == SelectSeq(parts, LAMBDA q : q # <<>>)
    IN  [i \in 1..Len(kept) |-> strip(kept[i])]

\* parse_row, the local function of parse_table
parse_row(row) ==
    LET parts == split(strip(row), "|")
        p1 == IF parts # <<>> /\ parts[1] = <<>> THEN Tail(parts) ELSE parts
        p2 == IF p1 # <<>> /\ p1[Len(p1)] = <<>> THEN SubSeq(p1, 1, Len(p1) - 1) ELSE p1
    IN  [i \in 1..Len(p2) |-> strip(p2[i])]

RECURSIVE RowsEnd(_, _)
RowsEnd(ls, i) ==
    IF i < Len(ls) /\ ~Blank(ls[i + 1]) /\ ~starts_new_block(strip(ls[i + 1]))
    THEN RowsEnd(ls, i + 1) ELSE i

parse_table(ls, p) ==
    LET e == RowsEnd(ls, p + 2)
        header_cells == parse_row(strip(ls[p + 1]))
        data_rows == [k \in 1..(e - (p + 2)) |-> parse_row(strip(ls[p + 2 + k]))]
    IN  Result(e, <<BlockToken("table", <<>>, None,
                               [header |-> header_cells, rows |-> data_rows], p + 1)>>)

\* the first cursor >= i at a frontmatter delimiter, Len(ls) if none
RECURSIVE FrontmatterClose(_, _)
FrontmatterClose(ls, i) ==
    IF i < Len(ls) /\ ~FRONTMATTER_RE(strip(ls[i + 1])) THEN FrontmatterClose(ls, i + 1) ELSE i

\* parse_frontmatter giving up at a missing closing delimiter: an empty
\* token, and the cursor left after the opener
parse_frontmatter_unclosed_empty(ls, p) ==
    LET start == p + 1
        e == FrontmatterClose(ls, start)
    IN  IF e < Len(ls)
        THEN Result(e + 1, <<BlockToken("frontmatter", join(SubSeq(ls, start + 1, e), NL),
                                        None, NoMeta, None)>>)
        ELSE Result(start, <<BlockToken("frontmatter", <<>>, None, NoMeta, None)>>)

parse_frontmatter(ls, p) ==
    LET start == p + 1
        e == FrontmatterClose(ls, start)
    IN  IF e < Len(ls)
        THEN Result(e + 1, <<BlockToken("frontmatter", join(SubSeq(ls, start + 1, e), NL),
                                        None, NoMeta, None)>>)
        ELSE Result(Len(ls), <<BlockToken("frontmatter", join(SubSeq(ls, start + 1, Len(ls)), NL),
                                          None, NoMeta, None)>>)

RECURSIVE FenceClose(_, _, _)
FenceClose(ls, i, fence_marker) ==
    IF i < Len(ls) /\ strip(ls[i + 1]) # fence_marker
    THEN FenceClose(ls, i + 1, fence_marker) ELSE i

\* parse_fenced_code_block with the error reporting the 0-indexed line
parse_fenced_code_block_line0(ls, p, lang) ==
    LET e == FenceClose(ls, p + 1, <<BT, BT, BT>>)
    IN  IF e < Len(ls)
        THEN Result(e + 1, <<BlockToken("code", join(SubSeq(ls, p + 2, e), NL), None,
                                        [language |-> lang], p + 2)>>)
        ELSE Raised(p, p)

\* parse_fenced_code_block raising with the cursor left at the end of the
\* document, where the search for the closing fence stopped
parse_fenced_code_block_cursor_at_end(ls, p, lang) ==
    LET e == FenceClose(ls, p + 1, <<BT, BT, BT>>)
    IN  IF e < Len(ls)
        THEN Result(e + 1, <<BlockToken("code", join(SubSeq(ls, p + 2, e), NL), None,
                                        [language |-> lang], p + 2)>>)
        ELSE Raised(Len(ls), p + 1)

parse_fenced_code_block(ls, p, lang) ==
    LET initial_line == p
        fence_marker == SubSeq(strip(ls[p + 1]), 1, Min(3, Len(strip(ls[p + 1]))))
        start == p + 1
        e == FenceClose(ls, start, fence_marker)
    IN  IF e < Len(ls)
        THEN Result(e + 1, <<BlockToken("code", join(SubSeq(ls, start + 1, e), NL), None,
                                        [language |-> lang], start + 1)>>)
        ELSE Raised(initial_line, initial_line + 1)

RECURSIVE BlockquoteEnd(_, _)
BlockquoteEnd(ls, i) ==
    IF i < Len(ls) /\ BLOCKQUOTE_RE(ls[i + 1]) THEN BlockquoteEnd(ls, i + 1) ELSE i

parse_blockquote(ls, p) ==
    LET e == BlockquoteEnd(ls, p)
        body == [k \in 1..(e - p) |-> BLOCKQUOTE_Text(ls[p + k])]
    IN  Result(e, <<BlockToken("blockquote", join(body, NL), None, NoMeta, p + 1)>>)

\* items with the current item, if any, closed
CloseItem(items, current_item) ==
    IF current_item # <<>> THEN Append(items, strip(join(current_item, NL))) ELSE items

list_pattern(ordered, line) ==
    IF ordered THEN ORDERED_LIST_RE(line) ELSE UNORDERED_LIST_RE(line)

\* the loop of parse_list: the cursor and the items when it ends
RECURSIVE ListLoop(_, _, _, _, _)
ListLoop(ls, i, items, current_item, ordered) ==
    IF i >= Len(ls) THEN [pos |-> i, items |-> CloseItem(items, current_item)]
    ELSE LET line == ls[i + 1]
         IN  IF Blank(line)
             THEN ListLoop(ls, i + 1, CloseItem(items, current_item), <<>>, ordered)
             ELSE IF /\ starts_new_block(strip(line))
                     /\ ~(ORDERED_LIST_RE(strip(line)) > 0 \/ UNORDERED_LIST_RE(strip(line)) > 0)
             THEN [pos |-> i, items |-> CloseItem(items, current_item)]
             ELSE IF list_pattern(ordered, line) > 0
             THEN ListLoop(ls, i + 1, CloseItem(items, current_item),
                           <<From(line, list_pattern(ordered, line))>>, ordered)
             ELSE ListLoop(ls, i + 1, items, Append(current_item, strip(line)), ordered)

\* task_re of parse_list: [ ] or [x], whitespace, any text
task_re(s) ==
    /\ Len(s) >= 4
    /\ s[1] = "["
    /\ s[2] \in {" ", "x"}
    /\ s[3] = "]"
    /\ s[4] \in Ws

final_item(it) ==
    LET first_line == strip(split(it, NL)[1])
    IN  IF task_re(first_line)
        THEN [text |-> From(first_line, 4 + RunLen(first_line, 4, Ws)),
              task_item |-> TRUE, checked |-> first_line[2] = "x"]
        ELSE [text |-> it, task_item |-> FALSE]

parse_list(ls, p, ordered) ==
    LET r == ListLoop(ls, p, <<>>, <<>>, ordered)
        final_items == [k \in 1..Len(r.items) |-> final_item(r.items[k])]
    IN  Result(r.pos, <<BlockToken(IF ordered THEN "ordered_list" ELSE "unordered_list",
                                   <<>>, None, [items |-> final_items], p + 1)>>)

\* the loop of parse_paragraph: the cursor and the lines when it ends
RECURSIVE ParagraphLoop(_, _, _)
ParagraphLoop(ls, i, body) ==
    IF i >= Len(ls) THEN [pos |-> i, body |-> body]
    ELSE IF Blank(ls[i + 1]) THEN [pos |-> i + 1, body |-> body]
    ELSE IF starts_new_block(strip(ls[i + 1])) THEN [pos |-> i, body |-> body]
    ELSE ParagraphLoop(ls, i + 1, Append(body, ls[i + 1]))

\* parse_paragraph appending its token whether or not it has content
parse_paragraph_empty_token(ls, p) ==
    LET r == ParagraphLoop(ls, p, <<>>)
        newpos == IF r.body = <<>> /\ r.pos < Len(ls) THEN r.pos + 1 ELSE r.pos
        content == strip(join(r.body, NL))
    IN  Result(newpos, <<BlockToken("paragraph", content, None, NoMeta, p + 1)>>)

parse_paragraph(ls, p) ==
    LET r == ParagraphLoop(ls, p, <<>>)
        newpos == IF r.body = <<>> /\ r.pos < Len(ls) THEN r.pos + 1 ELSE r.pos
        content == strip(join(r.body, NL))
    IN  Result(newpos, IF content # <<>>
                       THEN <<BlockToken("paragraph", content, None, NoMeta, p + 1)>>
                       ELSE <<>>)

\* --------------------------------------------------------------------------
\* The pre-pass: reference and footnote definitions, searched in the text
\* --------------------------------------------------------------------------

NoMatch == [end |-> 0]

\* a definition that starts at p, for REFERENCE_DEF_RE (skip = 0) and
\* FOOTNOTE_DEF_RE (skip = 1, for the caret), both compiled with re.MULTILINE:
\* at the start of a line an opening bracket, an id of one or more characters
\* other than the closing bracket, the closing bracket, a colon, whitespace
\* (one or more, newlines included), then group 2, the shortest text without
\* a newline that only whitespace separates from the end of its line.
DefinitionAt(t, p, skip) ==
    LET e == Find(t, p + 1 + skip, {"]"})
        w == RunLen(t, e + 2, Ws)
        q == e + 2 + w
        eol == Find(t, q, {NL})
    IN  IF /\ (p = 1 \/ t[p - 1] = NL)
           /\ t[p] = "["
           /\ (skip = 1 => p + 1 <= Len(t) /\ t[p + 1] = "^")
           /\ e <= Len(t) /\ e > p + 1 + skip
           /\ e + 1 <= Len(t) /\ t[e + 1] = ":"
           /\ w >= 1
        THEN [end |-> Max(eol, p + 1),
              id |-> SubSeq(t, p + 1 + skip, e - 1),
              target |-> rstrip(SubSeq(t, q, eol - 1))]
        ELSE NoMatch

REFERENCE_DEF_RE(t, p) == DefinitionAt(t, p, 0)
FOOTNOTE_DEF_RE(t, p) == DefinitionAt(t, p, 1)

\* --------------------------------------------------------------------------
\* InlineParser
\* --------------------------------------------------------------------------

\* IMAGE_OR_LINK_RE at p: an optional bang, a bracketed text without closing
\* bracket, then a parenthesised url or a bracketed id, neither empty
IMAGE_OR_LINK_RE(t, p) ==
    LET b == IF t[p] = "!" THEN p + 1 ELSE p
        c == Find(t, b + 1, {"]"})
        d == IF c + 1 <= Len(t) /\ t[c + 1] = "("
             THEN Find(t, c + 2, {")"}) ELSE Find(t, c + 2, {"]"})
    IN  IF /\ b <= Len(t) /\ t[b] = "["
           /\ c <= Len(t)
           /\ c + 1 <= Len(t) /\ t[c + 1] \in {"(", "["}
           /\ d <= Len(t) /\ d > c + 2
        THEN [end |-> d + 1,
              is_image |-> t[p] = "!",
              inner_text |-> SubSeq(t, b + 1, c - 1),
              url |-> IF t[c + 1] = "(" THEN SubSeq(t, c + 2, d - 1) ELSE NoneStr,
              ref_id |-> IF t[c + 1] = "[" THEN SubSeq(t, c + 2, d - 1) ELSE NoneStr]
        ELSE NoMatch

\* FOOTNOTE_RE at p: bracket, caret, an id without closing bracket, bracket
FOOTNOTE_RE(t, p) ==
    LET c == Find(t, p + 2, {"]"})
    IN  IF /\ t[p] = "[" /\ p + 1 <= Len(t) /\ t[p + 1] = "^"
           /\ c <= Len(t) /\ c > p + 2
        THEN [end |-> c + 1, id |-> SubSeq(t, p + 2, c - 1)]
        ELSE NoMatch

\* CODE_INLINE_RE at p: a backtick, one or more other characters, a backtick
CODE_INLINE_RE(t, p) ==
    LET c == Find(t, p + 1, {BT})
    IN  IF t[p] = BT /\ c <= Len(t) /\ c > p + 1
        THEN [end |-> c + 1, code |-> SubSeq(t, p + 1, c - 1)]
        ELSE NoMatch

\* the first index j >= i at which the marker m (one or two equal characters)
\* stands, with no newline between i and j; Len(t) + 1 if there is none
RECURSIVE Closing(_, _, _)
Closing(t, i, m) ==
    IF i + Len(m) - 1 > Len(t) THEN Len(t) + 1
    ELSE IF SubSeq(t, i, i + Len(m) - 1) = m THEN i
    ELSE IF t[i] = NL THEN Len(t) + 1
    ELSE Closing(t, i + 1, m)

\* EMPHASIS_RE at p: a doubled star or underscore up to the next such pair,
\* else a star up to the next star, else an underscore up to the next
\* underscore; the text between is the emphasis
EMPHASIS_RE(t, p) ==
    LET two == IF p + 1 <= Len(t) THEN SubSeq(t, p, p + 1) ELSE <<>>
        j2 == Closing(t, p + 2, two)
        j1 == Closing(t, p + 1, <<t[p]>>)
    IN  IF two \in {<<"*", "*">>, <<"_", "_">>} /\ j2 <= Len(t)
        THEN [end |-> j2 + 2, emphasized_text |-> SubSeq(t, p + 2, j2 - 1)]
        ELSE IF t[p] \in {"*", "_"} /\ j1 <= Len(t)
        THEN [end |-> j1 + 1, emphasized_text |-> SubSeq(t, p + 1, j1 - 1)]
        ELSE NoMatch

\* the tags of the text: what HTML_INLINE_RE describes, an angle bracket, a
\* letter or a slash, anything up to the closing angle bracket
HTML_INLINE_RE(t, p) ==
    LET c == Find(t, p + 2, {">"})
    IN  IF /\ t[p] = "<" /\ p + 1 <= Len(t) /\ t[p + 1] \in Letter \cup {"/"}
           /\ c <= Len(t)
        THEN [end |-> c + 1, tag |-> SubSeq(t, p, c)]
        ELSE NoMatch

\* the match of the pattern named re that starts at index p of t, with end
\* the index after it, or NoMatch
MatchAt(re, t, p) ==
    CASE re = "REFERENCE_DEF_RE" -> REFERENCE_DEF_RE(t, p)
      [] re = "FOOTNOTE_DEF_RE" -> FOOTNOTE_DEF_RE(t, p)
      [] re = "IMAGE_OR_LINK_RE" -> IMAGE_OR_LINK_RE(t, p)
      [] re = "FOOTNOTE_RE" -> FOOTNOTE_RE(t, p)
      [] re = "CODE_INLINE_RE" -> CODE_INLINE_RE(t, p)
      [] re = "EMPHASIS_RE" -> EMPHASIS_RE(t, p)
      [] re = "HTML_INLINE_RE" -> HTML_INLINE_RE(t, p)

\* re.finditer(t): the matches of the pattern in t from index p on, left to
\* right, each search resuming where the match before it ended
RECURSIVE finditer(_, _, _)
finditer(re, t, p) ==
    IF p > Len(t) THEN <<>>
    ELSE IF MatchAt(re, t, p).end > 0
    THEN <<MatchAt(re, t, p)>> \o finditer(re, t, MatchAt(re, t, p).end)
    ELSE finditer(re, t, p + 1)

\* a dict as a function: d[k] = v set on d
Put(d, k, v) == [x \in DOMAIN d \cup {k} |-> IF x = k THEN v ELSE d[x]]

\* the dict after the assignments of the matches ms, in order
RECURSIVE Collect(_, _, _)
Collect(d, ms, lowered) ==
    IF ms = <<>> THEN d
    ELSE Collect(Put(d, IF lowered THEN lower(ms[1].id) ELSE ms[1].id, ms[1].target),
                 Tail(ms), lowered)

\* extract_references_and_footnotes: the two tables
references_of(t) == Collect(<<>>, finditer("REFERENCE_DEF_RE", t, 1), TRUE)
footnotes_of(t) == Collect(<<>>, finditer("FOOTNOTE_DEF_RE", t, 1), FALSE)

\* footnotes_used, were every use of an id recorded
RECURSIVE footnotes_used_repeated(_, _, _)
footnotes_used_repeated(ms, used_footnotes, footnotes_) ==
    IF ms = <<>> THEN <<>>
    ELSE IF ms[1].id \in DOMAIN footnotes_
    THEN <<[id |-> ms[1].id, content |-> footnotes_[ms[1].id]]>>
         \o footnotes_used_repeated(Tail(ms), used_footnotes, footnotes_)
    ELSE footnotes_used_repeated(Tail(ms), used_footnotes, footnotes_)

\* footnotes_used: the first use of each id that the footnote table holds
RECURSIVE footnotes_used(_, _, _)
footnotes_used(ms, used_footnotes, footnotes_) ==
    IF ms = <<>> THEN <<>>
    ELSE IF ms[1].id \in DOMAIN footnotes_ /\ ms[1].id \notin used_footnotes
    THEN <<[id |-> ms[1].id, content |-> footnotes_[ms[1].id]]>>
         \o footnotes_used(Tail(ms), used_footnotes \cup {ms[1].id}, footnotes_)
    ELSE footnotes_used(Tail(ms), used_footnotes, footnotes_)

\* final_url of a link match: the url written, or the one the id refers to
final_url(m, references_) ==
    IF m.ref_id # NoneStr /\ lower(m.ref_id) \in DOMAIN references_
    THEN references_[lower(m.ref_id)]
    ELSE m.url

\* the entries, were the test of final_url left out
RECURSIVE links_unfiltered(_, _, _)
links_unfiltered(ms, references_, image) ==
    IF ms = <<>> THEN <<>>
    ELSE LET u == final_url(ms[1], references_)
             rest == links_unfiltered(Tail(ms), references_, image)
         IN  IF ms[1].is_image = image
             THEN <<IF image THEN [alt_text |-> ms[1].inner_text, url |-> u]
                             ELSE [text |-> ms[1].inner_text, url |-> u]>> \o rest
             ELSE rest

\* the entries of text_links (image = FALSE) or image_links (image = TRUE)
RECURSIVE links(_, _, _)
links(ms, references_, image) ==
    IF ms = <<>> THEN <<>>
    ELSE LET u == final_url(ms[1], references_)
             rest == links(Tail(ms), references_, image)
         IN  IF ms[1].is_image = image /\ u # NoneStr /\ u # <<>>
             THEN <<IF image THEN [alt_text |-> ms[1].inner_text, url |-> u]
                             ELSE [text |-> ms[1].inner_text, url |-> u]>> \o rest
             ELSE rest

\* the sequence ms[k].f of the matches whose field is kept
Field(ms, f, nonempty) ==
    LET kept == SelectSeq(ms, LAMBDA m : ~nonempty \/ m[f] # <<>>)
    IN  [k \in 1..Len(kept) |-> kept[k][f]]

parse_inline(t, references_, footnotes_) ==
    [text_links |-> links(finditer("IMAGE_OR_LINK_RE", t, 1), references_, FALSE),
     image_links |-> links(finditer("IMAGE_OR_LINK_RE", t, 1), references_, TRUE),
     inline_code |-> Field(finditer("CODE_INLINE_RE", t, 1), "code", FALSE),
     emphasis |-> Field(finditer("EMPHASIS_RE", t, 1), "emphasized_text", TRUE),
     footnotes_used |-> footnotes_used(finditer("FOOTNOTE_RE", t, 1), {}, footnotes_),
     html_inline |-> Field(finditer("HTML_INLINE_RE", t, 1), "tag", FALSE)]

\* dict.update: the entries of new, then those of old under other keys
update(old, new) == new @@ old

inline_types == {"paragraph", "header", "blockquote"}

\* --------------------------------------------------------------------------
\* MarkdownAnalyzer.identify_links and check_links
\* --------------------------------------------------------------------------

\* the Text link entries of one token
TextLinksOf(t) ==
    IF "text_links" \in DOMAIN t.meta
    THEN [i \in DOMAIN t.meta.text_links |->
             [line |-> t.line, text |-> t.meta.text_links[i].text,
              url |-> t.meta.text_links[i].url]]
    ELSE <<>>

\* identify_links()["Text link"]: the text links of the tokens, in order
RECURSIVE identify_links(_)
identify_links(toks) ==
    IF toks = <<>> THEN <<>>
    ELSE TextLinksOf(toks[1]) \o identify_links(Tail(toks))

\* url.startswith(("http://", "https://"))
is_http(url) ==
    \/ startswith(url, <<"h", "t", "t", "p", ":", "/", "/">>)
    \/ startswith(url, <<"h", "t", "t", "p", "s", ":", "/", "/">>)

\* what a request can end with: a response with a status code, or a
\* requests.RequestException
Responses ==
    {[raised |-> FALSE, status_code |-> c] : c \in {200, 400, 405}}
        \cup {[raised |-> TRUE, status_code |-> None]}

\* what check_single_link returns for the link after the response r, the
\* last one it got; <<>> stands for None
broken_any_status(link, r) ==
    IF r.raised
    THEN [url |-> link.url, line |-> link.line, error |-> "RequestException",
          text |-> link.text]
    ELSE [url |-> link.url, line |-> link.line, status_code |-> r.status_code,
          text |-> link.text]

broken(link, r) ==
    IF r.raised
    THEN [url |-> link.url, line |-> link.line, error |-> "RequestException",
          text |-> link.text]
    ELSE IF r.status_code >= 400
    THEN [url |-> link.url, line |-> link.line, status_code |-> r.status_code,
          text |-> link.text]
    ELSE <<>>

\* --------------------------------------------------------------------------
\* The documents of the model
\* --------------------------------------------------------------------------

\* The lines documents are made of: one or more for each block rule, for the
\* lookahead of the table and setext rules, and for the lines that start a
\* block only once they are stripped.
Pool ==
    { <<>>,                                \* a blank line
      <<" ", " ", " ", " ", "x">>,         \* indented code
      <<"#", "#", " ", "a", "|", "b">>,    \* an ATX header, also a table header
      <<"-", "|", "-">>,                   \* a table separator
      <<"|", "|", "a", "|", "|">>,         \* a table row with empty cells
      <<"<", "b", ">">>,                   \* an opening tag
      <<"<", "!", "-", "-">>,              \* a comment opener
      <<"-", "-", ">">>,                   \* a comment closer
      <<"=">>,                             \* a setext underline of level 1
      <<"-", "-", "-">>,                   \* frontmatter delimiter, thematic break, underline
      <<"-", " ">>,                        \* a list marker with no text
      <<BT, BT, BT>>,                      \* a fence
      <<">", " ", "a">>,                   \* a blockquote line
      <<"-", " ", "a">>,                   \* an unordered list item
      <<"1", ".", " ", "a">>,              \* an ordered list item
      <<"a">> }                            \* plain text

\* The lines of the documents made to exercise links: a paragraph, a header
\* and a blockquote that refer to x, in either case, the definition of x, a
\* definition line that lacks its url, a reference to the id of that line,
\* and an inline link.
InlinePool ==
    { <<>>,
      <<"[", "s", "]", "[", "a", "]">>,
      <<"[", "t", "]", "(", "v", ")">>,
      <<"[", "t", "]", "[", "X", "]">>,
      <<"#", " ", "[", "t", "]", "[", "x", "]">>,
      <<">", "!", "[", "t", "]", "[", "X", "]">>,
      <<"[", "x", "]", ":", " ", "u">>,
      <<"[", "a", "]", ":">> }

\* The lines of the documents made to exercise footnotes: the definitions
\* of f and g, a paragraph and a header that use them more than once, and a
\* use of h, which has no definition.
FootnotePool ==
    { <<>>,
      <<"[", "^", "f", "]", ":", " ", "n">>,
      <<"[", "^", "g", "]", ":", " ", "m">>,
      <<"[", "^", "g", "]", " ", "[", "^", "f", "]", " ", "[", "^", "g", "]">>,
      <<"#", " ", "[", "^", "f", "]", "[", "^", "f", "]">>,
      <<"[", "^", "f", "]", " ", "[", "^", "h", "]">> }

\* The lines of the documents made to exercise check_links: a text link to
\* an http url and one to an https url, a text link to another url, an image
\* with an http url, and an http link written in a list item and in a table
\* cell (with the separator line that makes the table).
LinkPool ==
    { <<>>,
      <<"[", "t", "]", "(", "h", "t", "t", "p", ":", "/", "/", "h", ")">>,
      <<"[", "s", "]", "(", "h", "t", "t", "p", "s", ":", "/", "/", "g", ")">>,
      <<"[", "t", "]", "(", "v", ")">>,
      <<"!", "[", "t", "]", "(", "h", "t", "t", "p", ":", "/", "/", "h", ")">>,
      <<"-", " ", "[", "t", "]", "(", "h", "t", "t", "p", ":", "/", "/", "h", ")">>,
      <<"|", "[", "t", "]", "(", "h", "t", "t", "p", ":", "/", "/", "h", ")", "|">>,
      <<"-", "|", "-">> }

Docs ==
    UNION {[1..n -> Pool] : n \in 1..MaxLines}
        \cup UNION {[1..n -> LinkPool] : n \in 1..MaxLinkLines}
        \cup UNION {[1..n -> InlinePool] : n \in 1..MaxLines}
        \cup UNION {[1..n -> FootnotePool] : n \in 1..MaxLines}

\* --------------------------------------------------------------------------
\* State
\* --------------------------------------------------------------------------

VARIABLES
    text,      \* MarkdownParser.text
    lines,     \* MarkdownParser.lines
    pos,       \* MarkdownParser.pos, the cursor
    tokens,    \* MarkdownParser.tokens, then MarkdownAnalyzer.tokens
    references, \* MarkdownParser.references
    footnotes, \* MarkdownParser.footnotes
    pc,        \* where the analysis is: "start", "loop" (in parse()), "done" (parse()
               \* returned), "error" (parse() raised), "analyzed" (the analyzer is built)
    err,       \* the line number in the message of the error raised, None before
    covered,   \* history: for each line number, how many tokens consumed the line
    futures,   \* check_links: future_to_link, each future with where its call is
    broken_links, \* check_links: broken_links
    parsed,    \* history: the outcomes of the analyses that ended before this one
    max_depth, \* WebsiteScraper.max_depth
    queue,     \* scrape(): the deque of (url, depth)
    visited,   \* WebsiteScraper.visited
    pages,     \* scrape(): the dict url -> html
    requested  \* history: the (url, depth) of every requests.get of scrape(), in order

\* the state of a WebsiteScraper and of its scrape()
crawl == <<max_depth, queue, visited, pages, requested>>

\* no WebsiteScraper was built
NoScraper ==
    /\ max_depth = 0
    /\ queue = <<>>
    /\ visited = {}
    /\ pages = <<>>
    /\ requested = <<>>

vars == <<text, lines, pos, tokens, references, footnotes, pc, err, covered,
          futures, broken_links, parsed, crawl>>

\* MarkdownParser.length
length == Len(lines)

\* MarkdownParser(text), were the tables left empty until they are asked for
Init_tables_empty ==
    /\ \E d \in Docs : text = join(d, NL)
    /\ lines = split(text, NL)
    /\ pos = 0
    /\ tokens = <<>>
    /\ references = <<>>
    /\ footnotes = <<>>
    /\ pc = "start"
    /\ err = None
    /\ covered = [n \in 1..Len(lines) |-> 0]
    /\ futures = <<>>
    /\ broken_links = <<>>
    /\ parsed = {}
    /\ NoScraper

\* MarkdownParser(text)
Init ==
    /\ \E d \in Docs : text = join(d, NL)
    /\ lines = split(text, NL)
    /\ pos = 0
    /\ tokens = <<>>
    /\ references = references_of(text)
    /\ footnotes = footnotes_of(text)
    /\ pc = "start"
    /\ err = None
    /\ covered = [n \in 1..Len(lines) |-> 0]
    /\ futures = <<>>
    /\ broken_links = <<>>
    /\ parsed = {}
    /\ NoScraper

\* the main loop with the setext check placed before the ATX check
Rule_setext_first(ls, p) ==
    LET line == ls[p + 1]
    IN  IF Blank(line) THEN "blank"
        ELSE IF Indented(line) THEN "indented"
        ELSE IF is_table_start(ls, p) THEN "table"
        ELSE IF is_html_block_start(line) THEN "html"
        ELSE IF p + 1 < Len(ls) /\ SETEXT_H1_RE(strip(ls[p + 2])) THEN "setext1"
        ELSE IF p + 1 < Len(ls) /\ SETEXT_H2_RE(strip(ls[p + 2])) THEN "setext2"
        ELSE IF ATX_HEADER_RE(line) > 0 THEN "atx"
        ELSE IF HR_RE(strip(line)) THEN "hr"
        ELSE IF FENCE_RE(strip(line)) THEN "fence"
        ELSE IF BLOCKQUOTE_RE(line) THEN "blockquote"
        ELSE IF ORDERED_LIST_RE(line) > 0 \/ UNORDERED_LIST_RE(line) > 0 THEN "list"
        ELSE "paragraph"

\* the branch of the main loop of parse() taken with the cursor at p < Len(ls)
Rule(ls, p) ==
    LET line == ls[p + 1]
    IN  IF Blank(line) THEN "blank"
        ELSE IF Indented(line) THEN "indented"
        ELSE IF is_table_start(ls, p) THEN "table"
        ELSE IF is_html_block_start(line) THEN "html"
        ELSE IF ATX_HEADER_RE(line) > 0 THEN "atx"
        ELSE IF p + 1 < Len(ls) /\ SETEXT_H1_RE(strip(ls[p + 2])) THEN "setext1"
        ELSE IF p + 1 < Len(ls) /\ SETEXT_H2_RE(strip(ls[p + 2])) THEN "setext2"
        ELSE IF HR_RE(strip(line)) THEN "hr"
        ELSE IF FENCE_RE(strip(line)) THEN "fence"
        ELSE IF BLOCKQUOTE_RE(line) THEN "blockquote"
        ELSE IF ORDERED_LIST_RE(line) > 0 \/ UNORDERED_LIST_RE(line) > 0 THEN "list"
        ELSE "paragraph"

\* the state after a block rule returned r (or raised) with the cursor at pos
Apply(r) ==
    /\ pos' = r.pos
    /\ tokens' = tokens \o r.toks
    /\ pc' = IF r.raised THEN "error" ELSE "loop"
    /\ err' = r.line
    /\ covered' = [n \in DOMAIN covered |->
                      IF r.toks # <<>> /\ n > pos /\ n <= r.pos
                      THEN covered[n] + Len(r.toks) ELSE covered[n]]
    /\ UNCHANGED <<text, lines, references, footnotes, futures, broken_links, parsed, crawl>>

\* one iteration of the main loop is about to run rule name
At(name) == pc = "loop" /\ pos < length /\ Rule(lines, pos) = name

\* --------------------------------------------------------------------------
\* parse(): the frontmatter check, then one action for each branch of the loop
\* --------------------------------------------------------------------------

ParseFrontmatter ==
    /\ pc = "start"
    /\ pos < length /\ FRONTMATTER_RE(strip(lines[pos + 1]))
    /\ Apply(parse_frontmatter(lines, pos))

EnterLoop ==
    /\ pc = "start"
    /\ ~(pos < length /\ FRONTMATTER_RE(strip(lines[pos + 1])))
    /\ pc' = "loop"
    /\ UNCHANGED <<text, lines, pos, tokens, references, footnotes, err, covered,
                   futures, broken_links, parsed, crawl>>

BlankLine ==
    /\ At("blank")
    /\ Apply(Result(pos + 1, <<>>))

IndentedCode ==
    /\ At("indented")
    /\ Apply(parse_indented_code_block(lines, pos))

Table ==
    /\ At("table")
    /\ Apply(parse_table(lines, pos))

HtmlBlock ==
    /\ At("html")
    /\ Apply(parse_html_block(lines, pos))

AtxHeader ==
    /\ At("atx")
    /\ Apply(Result(pos + 1, <<BlockToken("header", strip(ATX_Text(lines[pos + 1])),
                                          ATX_HEADER_RE(lines[pos + 1]), NoMeta, pos + 1)>>))

\* the setext rule, were it to leave the underline to the next iteration
SetextHeader_underline_left ==
    /\ At("setext1") \/ At("setext2")
    /\ Apply(Result(pos + 1, <<BlockToken("header", strip(lines[pos + 1]),
                                          IF At("setext1") THEN 1 ELSE 2, NoMeta, pos + 1)>>))

SetextHeader ==
    /\ At("setext1") \/ At("setext2")
    /\ Apply(Result(pos + 2, <<BlockToken("header", strip(lines[pos + 1]),
                                          IF At("setext1") THEN 1 ELSE 2, NoMeta, pos + 1)>>))

\* the thematic-break rule, were it tried before the setext rule
ThematicBreak_before_setext ==
    /\ pc = "loop" /\ pos < length
    /\ Rule(lines, pos) \in {"setext1", "setext2", "hr"}
    /\ HR_RE(strip(lines[pos + 1]))
    /\ Apply(Result(pos + 1, <<BlockToken("hr", <<>>, None, NoMeta, pos + 1)>>))

ThematicBreak ==
    /\ At("hr")
    /\ Apply(Result(pos + 1, <<BlockToken("hr", <<>>, None, NoMeta, pos + 1)>>))

FencedCode ==
    /\ At("fence")
    /\ Apply(parse_fenced_code_block(lines, pos, strip(From(strip(lines[pos + 1]), 4))))

Blockquote ==
    /\ At("blockquote")
    /\ Apply(parse_blockquote(lines, pos))

List ==
    /\ At("list")
    /\ Len(tokens) < MaxTokens
    /\ Apply(parse_list(lines, pos, ORDERED_LIST_RE(lines[pos + 1]) > 0))

Paragraph ==
    /\ At("paragraph")
    /\ Apply(parse_paragraph(lines, pos))

\* the loop ends and parse() returns the tokens
Return ==
    /\ pc = "loop"
    /\ pos >= length
    /\ pc' = "done"
    /\ UNCHANGED <<text, lines, pos, tokens, references, footnotes, err, covered,
                   futures, broken_links, parsed, crawl>>

\* _parse_inline_tokens, were it to scan the tokens of every type
ParseInlineTokens_every_type ==
    /\ pc = "done"
    /\ tokens' = [k \in DOMAIN tokens |->
                     [tokens[k] EXCEPT
                         !.meta = update(@, parse_inline(tokens[k].content,
                                                         references, footnotes))]]
    /\ pc' = "analyzed"
    /\ UNCHANGED <<text, lines, pos, references, footnotes, err, covered,
                   futures, broken_links, parsed, crawl>>

\* MarkdownAnalyzer.__init__ after parse() returned: _parse_inline_tokens
ParseInlineTokens ==
    /\ pc = "done"
    /\ tokens' = [k \in DOMAIN tokens |->
                     IF tokens[k].type \in inline_types /\ tokens[k].content # <<>>
                     THEN [tokens[k] EXCEPT
                              !.meta = update(@, parse_inline(tokens[k].content,
                                                              references, footnotes))]
                     ELSE tokens[k]]
    /\ pc' = "analyzed"
    /\ UNCHANGED <<text, lines, pos, references, footnotes, err, covered,
                   futures, broken_links, parsed, crawl>>

\* check_links(): one future is submitted for each text link
CheckLinks ==
    /\ pc = "analyzed"
    /\ futures' = [i \in DOMAIN identify_links(tokens) |->
                      [link |-> identify_links(tokens)[i], at |-> "submitted",
                       requests |-> <<>>, result |-> <<>>]]
    /\ broken_links' = <<>>
    /\ pc' = "checking"
    /\ UNCHANGED <<text, lines, pos, tokens, references, footnotes, err, covered, parsed, crawl>>

\* check_single_link of future i returns None for a link that is not http
SkipLink(i) ==
    /\ pc = "checking"
    /\ futures[i].at = "submitted"
    /\ ~is_http(futures[i].link.url)
    /\ futures' = [futures EXCEPT ![i].at = "done"]
    /\ UNCHANGED <<text, lines, pos, tokens, references, footnotes, pc, err, covered,
                   broken_links, parsed, crawl>>

\* check_single_link of future i, were it to return after requests.head
\* whatever the answer
HeadRequest_no_fallback(i, r) ==
    /\ pc = "checking"
    /\ futures[i].at = "submitted"
    /\ is_http(futures[i].link.url)
    /\ futures' = [futures EXCEPT
                      ![i].requests = Append(@, [method |-> "HEAD", response |-> r]),
                      ![i].at = "done",
                      ![i].result = broken(futures[i].link, r)]
    /\ UNCHANGED <<text, lines, pos, tokens, references, footnotes, pc, err, covered,
                   broken_links, parsed, crawl>>

\* check_single_link of future i: requests.head answers r; on 405 the call
\* goes on to requests.get, else it returns
HeadRequest(i, r) ==
    /\ pc = "checking"
    /\ futures[i].at = "submitted"
    /\ is_http(futures[i].link.url)
    /\ futures' = [futures EXCEPT
                      ![i].requests = Append(@, [method |-> "HEAD", response |-> r]),
                      ![i].at = IF ~r.raised /\ r.status_code = 405 THEN "get" ELSE "done",
                      ![i].result = IF ~r.raised /\ r.status_code = 405 THEN <<>>
                                    ELSE broken(futures[i].link, r)]
    /\ UNCHANGED <<text, lines, pos, tokens, references, footnotes, pc, err, covered,
                   broken_links, parsed, crawl>>

\* check_single_link of future i: requests.get answers r and the call returns
GetRequest(i, r) ==
    /\ pc = "checking"
    /\ futures[i].at = "get"
    /\ futures' = [futures EXCEPT
                      ![i].requests = Append(@, [method |-> "GET", response |-> r]),
                      ![i].at = "done",
                      ![i].result = broken(futures[i].link, r)]
    /\ UNCHANGED <<text, lines, pos, tokens, references, footnotes, pc, err, covered,
                   broken_links, parsed, crawl>>

\* as_completed yielding future i, were a result that carries an error to
\* end the collection
AsCompleted_stops_at_error(i) ==
    /\ pc = "checking"
    /\ futures[i].at = "done"
    /\ futures' = [futures EXCEPT ![i].at = "yielded"]
    /\ broken_links' = IF futures[i].result # <<>>
                       THEN Append(broken_links, futures[i].result)
                       ELSE broken_links
    /\ pc' = IF futures[i].result # <<>> /\ "error" \in DOMAIN futures[i].result
             THEN "checked" ELSE pc
    /\ UNCHANGED <<text, lines, pos, tokens, references, footnotes, err, covered,
                   parsed, crawl>>

\* as_completed yields future i, which is done: its result is appended to
\* broken_links unless it is None
AsCompleted(i) ==
    /\ pc = "checking"
    /\ futures[i].at = "done"
    /\ futures' = [futures EXCEPT ![i].at = "yielded"]
    /\ broken_links' = IF futures[i].result # <<>>
                       THEN Append(broken_links, futures[i].result)
                       ELSE broken_links
    /\ UNCHANGED <<text, lines, pos, tokens, references, footnotes, pc, err, covered,
                   parsed, crawl>>

\* every future was yielded: check_links returns broken_links
ReturnBrokenLinks ==
    /\ pc = "checking"
    /\ \A i \in DOMAIN futures : futures[i].at = "yielded"
    /\ pc' = "checked"
    /\ UNCHANGED <<text, lines, pos, tokens, references, footnotes, err, covered,
                   futures, broken_links, parsed, crawl>>

Next ==
    \/ ParseFrontmatter
    \/ EnterLoop
    \/ BlankLine
    \/ IndentedCode
    \/ Table
    \/ HtmlBlock
    \/ AtxHeader
    \/ SetextHeader
    \/ ThematicBreak
    \/ FencedCode
    \/ Blockquote
    \/ List
    \/ Paragraph
    \/ Return
    \/ ParseInlineTokens
    \/ CheckLinks
    \/ \E i \in DOMAIN futures : SkipLink(i)
    \/ \E i \in DOMAIN futures : \E r \in Responses : HeadRequest(i, r)
    \/ \E i \in DOMAIN futures : \E r \in Responses : GetRequest(i, r)
    \/ \E i \in DOMAIN futures : AsCompleted(i)
    \/ ReturnBrokenLinks

Spec == Init /\ [][Next]_vars

\* --------------------------------------------------------------------------
\* One analysis after another, each with a parser of its own
\* --------------------------------------------------------------------------

\* The documents analysed one after another: one or two for each rule of the
\* loop, an unclosed fence, a reference with its definition, and two links.
ReparseDocs ==
    { << <<"[", "t", "]", "(", "v", ")">>,
         <<"[", "t", "]", "(", "h", "t", "t", "p", ":", "/", "/", "h", ")">> >> } \cup
    { << <<"-", "-", "-">>, <<"a">> >>,
      << <<>>, <<" ", " ", " ", " ", "x">> >>,
      << <<"#", "#", " ", "a", "|", "b">>, <<"-", "|", "-">> >>,
      << <<"<", "b", ">">> >>,
      << <<"#", "#", " ", "a", "|", "b">> >>,
      << <<"a">>, <<"=">> >>,
      << <<>>, <<"-", "-", "-">> >>,
      << <<BT, BT, BT>>, <<BT, BT, BT>> >>,
      << <<BT, BT, BT>> >>,
      << <<">", " ", "a">> >>,
      << <<"-", " ", "a">> >>,
      << <<"a">> >>,
      << <<"[", "t", "]", "[", "X", "]">>, <<"[", "x", "]", ":", " ", "u">> >> }

\* the analysis is over: parse() raised, or the analyzer is built, its links
\* checked or not
Finished == pc \in {"analyzed", "error", "checked"}

\* what the analysis that is over gave for its text
Outcome ==
    [text |-> text, raised |-> pc = "error", err |-> err, tokens |-> tokens,
     references |-> references, footnotes |-> footnotes]

\* a new parser, were the token list one list shared by all parsers
NewParser_tokens_shared ==
    /\ Finished
    /\ Cardinality(parsed \cup {Outcome}) <= MaxParses
    /\ parsed' = parsed \cup {Outcome}
    /\ \E d \in ReparseDocs : text' = join(d, NL)
    /\ lines' = split(text', NL)
    /\ pos' = 0
    /\ tokens' = tokens
    /\ references' = references_of(text')
    /\ footnotes' = footnotes_of(text')
    /\ pc' = "start"
    /\ err' = None
    /\ covered' = [n \in 1..Len(lines') |-> 0]
    /\ futures' = <<>>
    /\ broken_links' = <<>>
    /\ UNCHANGED crawl

\* MarkdownParser(text) once more, for another document or the same one: a
\* new object whose fields __init__ sets from the text
NewParser ==
    /\ Finished
    /\ Cardinality(parsed \cup {Outcome}) <= MaxParses
    /\ parsed' = parsed \cup {Outcome}
    /\ \E d \in ReparseDocs : text' = join(d, NL)
    /\ lines' = split(text', NL)
    /\ pos' = 0
    /\ tokens' = <<>>
    /\ references' = references_of(text')
    /\ footnotes' = footnotes_of(text')
    /\ pc' = "start"
    /\ err' = None
    /\ covered' = [n \in 1..Len(lines') |-> 0]
    /\ futures' = <<>>
    /\ broken_links' = <<>>
    /\ UNCHANGED crawl

InitReparse == Init /\ text \in {join(d, NL) : d \in ReparseDocs}

NextReparse == Next \/ NewParser

SpecReparse == InitReparse /\ [][NextReparse]_vars

\* --------------------------------------------------------------------------
\* Shapes of lines that the properties speak of
\* --------------------------------------------------------------------------

\* the line under the cursor p, stripped, opens a fence
FenceOpening(ls, p) == FENCE_RE(strip(ls[p + 1]))

\* no line after the one under the cursor p equals the fence marker
NoClosingFence(ls, p) == \A n \in (p + 2)..Len(ls) : strip(ls[n]) # <<BT, BT, BT>>

\* the line after the one under the cursor p exists and holds only c
Underlined(ls, p, c) == p + 1 < Len(ls) /\ RunThenWs(strip(ls[p + 2]), c)

\* the cursor p is at a line that is not blank and that none of the rules
\* before the setext rule takes: indented code, table, HTML block, ATX header
PlainText(ls, p) ==
    /\ ~Blank(ls[p + 1])
    /\ ~Indented(ls[p + 1])
    /\ ~is_table_start(ls, p)
    /\ ~is_html_block_start(ls[p + 1])
    /\ ATX_HEADER_RE(ls[p + 1]) = 0

\* the step appends exactly the token t
Emits(t) == tokens' = Append(tokens, t)

\* a loop iteration starts with the cursor on a line
InLoop == pc = "loop" /\ pos < length

\* --------------------------------------------------------------------------
\* MDXMarkdownParser: the tolerant parser, which keeps the fenced code only
\* --------------------------------------------------------------------------

\* the index of the first line after line i that holds only the three
\* backticks, once stripped; Len(ls) + 1 if there is none
RECURSIVE MDXFenceClose(_, _)
MDXFenceClose(ls, i) ==
    IF i > Len(ls) THEN Len(ls) + 1
    ELSE IF strip(ls[i]) = <<BT, BT, BT>> THEN i
    ELSE MDXFenceClose(ls, i + 1)

\* len(line) - len(line.lstrip())
indent(line) == RunLen(line, 1, Ws)

\* clean_content: the lines of content that are not blank, each cut by
\* base_indent and put behind four spaces
clean_content(content, base_indent) ==
    LET kept == SelectSeq(content, LAMBDA line : ~Blank(line))
    IN  [k \in 1..Len(kept) |-> <<" ", " ", " ", " ">> \o From(kept[k], base_indent + 1)]

\* MDXMarkdownParser.parse_fenced_code_block with the cursor at p: without a
\* closing fence the loop runs to the end and nothing is appended; with one,
\* a token is appended if there are lines between the fences, and min()
\* raises ValueError if all of them are blank
MDX_parse_fenced_code_block(ls, p, lang) ==
    LET close == MDXFenceClose(ls, p + 2)
        content == SubSeq(ls, p + 2, close - 1)
        indents == {indent(content[k]) : k \in {j \in DOMAIN content : ~Blank(content[j])}}
        base_indent == CHOOSE m \in indents : \A n \in indents : m <= n
    IN  IF close > Len(ls) THEN Result(Len(ls), <<>>)
        ELSE IF content = <<>> THEN Result(close, <<>>)
        ELSE IF indents = {} THEN Raised(close - 1, None)
        ELSE Result(close, <<BlockToken("code", join(clean_content(content, base_indent), NL),
                                        None,
                                        [language |-> strip(lang), code_type |-> "fenced"],
                                        p + 1)>>)

\* The lines of the documents of the tolerant parser
MDXPool ==
    { <<>>,
      <<BT, BT, BT>>,
      <<BT, BT, BT, "p">>,
      <<"x">>,
      <<" ", " ", "x">> }

MDXDocs == UNION {[1..n -> MDXPool] : n \in 1..MaxLines}

\* MDXMarkdownParser(text), about to run parse()
InitMDX ==
    /\ \E d \in MDXDocs : text = join(d, NL)
    /\ lines = split(text, NL)
    /\ pos = 0
    /\ tokens = <<>>
    /\ references = references_of(text)
    /\ footnotes = footnotes_of(text)
    /\ pc = "mdx"
    /\ err = None
    /\ covered = [n \in 1..Len(lines) |-> 0]
    /\ futures = <<>>
    /\ broken_links = <<>>
    /\ parsed = {}
    /\ NoScraper

\* one iteration of the loop of MDXMarkdownParser.parse on a fence line
MDXFencedCode ==
    /\ pc = "mdx" /\ pos < length
    /\ FENCE_RE(strip(lines[pos + 1]))
    /\ LET r == MDX_parse_fenced_code_block(lines, pos, From(strip(lines[pos + 1]), 4))
       IN  /\ pos' = r.pos
           /\ tokens' = tokens \o r.toks
           /\ pc' = IF r.raised THEN "error" ELSE "mdx"
    /\ UNCHANGED <<text, lines, references, footnotes, err, covered,
                   futures, broken_links, parsed, crawl>>

\* one iteration on any other line
MDXSkipLine ==
    /\ pc = "mdx" /\ pos < length
    /\ ~FENCE_RE(strip(lines[pos + 1]))
    /\ pos' = pos + 1
    /\ UNCHANGED <<text, lines, tokens, references, footnotes, pc, err, covered,
                   futures, broken_links, parsed, crawl>>

\* the loop ends and parse() returns the tokens
MDXReturn ==
    /\ pc = "mdx" /\ pos >= length
    /\ pc' = "mdx_done"
    /\ UNCHANGED <<text, lines, pos, tokens, references, footnotes, err, covered,
                   futures, broken_links, parsed, crawl>>

NextMDX == MDXFencedCode \/ MDXSkipLine \/ MDXReturn

SpecMDX == InitMDX /\ [][NextMDX]_vars

\* --------------------------------------------------------------------------
\* WebsiteScraper: the crawl of the pages of one domain
\* --------------------------------------------------------------------------

\* a URL, or the value of a href, in the parts urlparse gives; the path is
\* a sequence of characters
Url(scheme, netloc, path) == [scheme |-> scheme, netloc |-> netloc, path |-> path]

\* WebsiteScraper.base_url
base_url == Url("http", "h", <<"/">>)

\* WebsiteScraper.domain
domain == base_url.netloc

\* the href values of the pages: a directory below that of the page, another
\* host, and a scheme that is not of the web
Hrefs ==
    { Url("", "", <<"a", "/">>), Url("http", "o", <<"/">>), Url("mailto", "", <<"x">>) }

\* response.text, as far as scrape() reads it: the href values of its a
\* elements, in the order of the document
Htmls == UNION {[1..n -> Hrefs] : n \in 0..MaxHrefs}

\* the path up to its last slash, the slash included
RECURSIVE Directory(_)
Directory(path) ==
    IF path = <<>> \/ path[Len(path)] = "/" THEN path
    ELSE Directory(SubSeq(path, 1, Len(path) - 1))

\* urljoin(current_url, href), for a href that is a URL with a scheme, a
\* host with a path, an absolute path or a relative path without dots
urljoin(current_url, href) ==
    IF href.scheme # "" THEN href
    ELSE IF href.netloc # "" THEN Url(current_url.scheme, href.netloc, href.path)
    ELSE IF href.path # <<>> /\ href.path[1] = "/"
    THEN Url(current_url.scheme, current_url.netloc, href.path)
    ELSE Url(current_url.scheme, current_url.netloc,
             Directory(current_url.path) \o href.path)

\* _is_valid_url without the comparison of the host with the domain
_is_valid_url_any_host(url) ==
    /\ url.scheme \in {"http", "https"}
    /\ ~(url.path # <<>> /\ url.path[1] = "#")

_is_valid_url(url) ==
    /\ url.scheme \in {"http", "https"}
    /\ url.netloc = domain
    /\ ~(url.path # <<>> /\ url.path[1] = "#")

\* the entries that the loop over find_all("a", href=True) appends to the
\* queue for the page html found at current_url, at depth
RECURSIVE Enqueued(_, _, _)
Enqueued(html, current_url, depth) ==
    IF html = <<>> THEN <<>>
    ELSE (IF _is_valid_url(urljoin(current_url, Head(html)))
          THEN <<[url |-> urljoin(current_url, Head(html)), depth |-> depth + 1]>>
          ELSE <<>>) \o Enqueued(Tail(html), current_url, depth)

\* dict assignment d[k] = v
SetItem(d, k, v) == [x \in DOMAIN d \cup {k} |-> IF x = k THEN v ELSE d[x]]

\* WebsiteScraper(base_url, max_depth) at the start of scrape()
InitScrape ==
    /\ text = <<>>
    /\ lines = split(text, NL)
    /\ pos = 0
    /\ tokens = <<>>
    /\ references = <<>>
    /\ footnotes = <<>>
    /\ pc = "scrape"
    /\ err = None
    /\ covered = [n \in 1..Len(lines) |-> 0]
    /\ futures = <<>>
    /\ broken_links = <<>>
    /\ parsed = {}
    /\ max_depth \in 0..MaxDepth
    /\ queue = <<[url |-> base_url, depth |-> 0]>>
    /\ visited = {}
    /\ pages = <<>>
    /\ requested = <<>>

\* an iteration of the loop of scrape() is about to pop the head of the queue
Scraping == pc = "scrape" /\ queue # <<>>

\* the iteration pops a URL that is in visited
ScrapeVisited ==
    /\ Scraping
    /\ Head(queue).url \in visited
    /\ queue' = Tail(queue)
    /\ UNCHANGED <<text, lines, pos, tokens, references, footnotes, pc, err, covered,
                   futures, broken_links, parsed, max_depth, visited, pages, requested>>

\* the iteration pops a URL at a depth beyond max_depth
ScrapeTooDeep ==
    /\ Scraping
    /\ Head(queue).url \notin visited
    /\ Head(queue).depth > max_depth
    /\ queue' = Tail(queue)
    /\ UNCHANGED <<text, lines, pos, tokens, references, footnotes, pc, err, covered,
                   futures, broken_links, parsed, max_depth, visited, pages, requested>>

\* the iteration requests the URL, and requests.get or raise_for_status
\* raises a RequestException
ScrapeRequestFails ==
    /\ Scraping
    /\ Head(queue).url \notin visited
    /\ Head(queue).depth <= max_depth
    /\ requested' = Append(requested, Head(queue))
    /\ queue' = Tail(queue)
    /\ UNCHANGED <<text, lines, pos, tokens, references, footnotes, pc, err, covered,
                   futures, broken_links, parsed, max_depth, visited, pages>>

\* the iteration requests the URL and gets the page html: it stores it,
\* marks the URL visited and puts the valid URLs of its links on the queue
ScrapePage(html) ==
    /\ Scraping
    /\ Head(queue).url \notin visited
    /\ Head(queue).depth <= max_depth
    /\ requested' = Append(requested, Head(queue))
    /\ pages' = SetItem(pages, Head(queue).url, html)
    /\ visited' = visited \cup {Head(queue).url}
    /\ queue' = Tail(queue) \o Enqueued(html, Head(queue).url, Head(queue).depth)
    /\ UNCHANGED <<text, lines, pos, tokens, references, footnotes, pc, err, covered,
                   futures, broken_links, parsed, max_depth>>

\* the queue is empty: scrape() returns pages
ScrapeReturn ==
    /\ pc = "scrape"
    /\ queue = <<>>
    /\ pc' = "scraped"
    /\ UNCHANGED <<text, lines, pos, tokens, references, footnotes, err, covered,
                   futures, broken_links, parsed, crawl>>

NextScrape ==
    \/ ScrapeVisited
    \/ ScrapeTooDeep
    \/ ScrapeRequestFails
    \/ \E html \in Htmls : ScrapePage(html)
    \/ ScrapeReturn

SpecScrape == InitScrape /\ [][NextScrape]_vars

\* the loop of scrape() goes on for as long as it can take a step
SpecScrapeFair == InitScrape /\ [][NextScrape]_vars /\ WF_vars(NextScrape)

\* --------------------------------------------------------------------------
\* C1
\* --------------------------------------------------------------------------

\* C1: every iteration of the main loop that does not raise strictly
\* increases the cursor pos (so that the loop runs at most len(lines) times
\* and parse() terminates).
C1_EveryIterationAdvances ==
    [][(InLoop /\ pc' # "error") => pos' > pos]_vars

\* --------------------------------------------------------------------------
\* C2
\* --------------------------------------------------------------------------

\* C2, as claimed: whenever the cursor reaches a fence-opening line that no
\* later line closes, parse() raises the unclosed-fence error, with the
\* 1-indexed number of that line.
C2_AsClaimed ==
    [][(InLoop /\ FenceOpening(lines, pos) /\ NoClosingFence(lines, pos))
          => (pc' = "error" /\ err' = pos + 1)]_vars

\* the fence rule is the one that takes the line under the cursor: no rule
\* before it in the loop does
FenceRuleTakes(ls, p) ==
    /\ FenceOpening(ls, p)
    /\ ~Indented(ls[p + 1])
    /\ ~is_table_start(ls, p)
    /\ ~Underlined(ls, p, "=")
    /\ ~Underlined(ls, p, "-")

\* C2, amended: whenever the cursor reaches a fence-opening line that no
\* earlier rule takes (it is not indented code, not a table start and not
\* followed by a setext underline) and that no later line closes, parse()
\* raises the unclosed-fence error, with the 1-indexed number of that line,
\* and emits no token.
C2_UnclosedFenceRaises ==
    [][(InLoop /\ FenceRuleTakes(lines, pos) /\ NoClosingFence(lines, pos))
          => (pc' = "error" /\ err' = pos + 1 /\ tokens' = tokens)]_vars

\* the error was raised for a fence that is not on the first line
C2_Witness ==
    /\ pc = "error"
    /\ err = 2
    /\ FenceRuleTakes(lines, err - 1)
    /\ NoClosingFence(lines, err - 1)

\* --------------------------------------------------------------------------
\* C3
\* --------------------------------------------------------------------------

\* parse() raised with the cursor on an opening fence that has no closing fence
FailedOnUnclosedFence ==
    /\ pc = "error"
    /\ pos < length
    /\ FenceOpening(lines, pos)
    /\ NoClosingFence(lines, pos)

\* C3: parse() fails only on an opening fence that has no closing fence, and
\* on every other input it goes on to return the tokens with pos = length:
\* an iteration of the main loop either raises with the cursor on such a
\* fence, or raises nothing and moves the cursor nearer to the end of the
\* lines, where parse() returns.
C3_FailsOnFenceOrGoesOn ==
    [][InLoop =>
          IF pc' = "error"
          THEN FailedOnUnclosedFence'
          ELSE length - pos' < length - pos /\ pos' <= length]_vars

\* --------------------------------------------------------------------------
\* C4
\* --------------------------------------------------------------------------

\* C4, as claimed: after a successful parse every non-blank line has been
\* consumed into exactly one token.
C4_AsClaimed ==
    pc = "done" => \A n \in 1..length : ~Blank(lines[n]) => covered[n] = 1

\* a line that starts a block once it is stripped (a setext underline, or a
\* header or blockquote marker behind one to three blanks) and that no rule
\* of the main loop takes as it stands
StartsBlockOnlyStripped(line) ==
    /\ starts_new_block(strip(line))
    /\ ~Indented(line)
    /\ ~is_html_block_start(line)
    /\ ATX_HEADER_RE(line) = 0
    /\ ~HR_RE(strip(line))
    /\ ~FENCE_RE(strip(line))
    /\ ~BLOCKQUOTE_RE(line)
    /\ ORDERED_LIST_RE(line) = 0
    /\ UNORDERED_LIST_RE(line) = 0

\* C4, amended: after a successful parse no line has been consumed into two
\* tokens, and every non-blank line has been consumed into exactly one token
\* unless it is a line that starts a block only once stripped and that no
\* rule takes (a bare underline of = for one): the paragraph rule steps over
\* such a line without a token.
C4_ConsumedAtMostOnce ==
    pc = "done" =>
        \A n \in 1..length :
            /\ covered[n] <= 1
            /\ (~Blank(lines[n]) /\ covered[n] = 0) => StartsBlockOnlyStripped(lines[n])

\* a successful parse that stepped over a non-blank line and consumed another
C4_Witness ==
    /\ pc = "done"
    /\ \E n \in 1..length : ~Blank(lines[n]) /\ covered[n] = 0
    /\ \E n \in 1..length : ~Blank(lines[n]) /\ covered[n] = 1

\* --------------------------------------------------------------------------
\* C5
\* --------------------------------------------------------------------------

\* C5: the line of every token emitted is the cursor when its rule fired,
\* plus one; for a fenced code block that is the line of the opening fence.
C5_LineIsWhereTheRuleFired ==
    [][Len(tokens') > Len(tokens) => tokens'[Len(tokens')].line = pos + 1]_vars

\* --------------------------------------------------------------------------
\* C6
\* --------------------------------------------------------------------------

\* C6: any two tokens of the sequence, Frontmatter included, carry line
\* numbers, and the earlier token does not carry the larger one.
C6_LinesNonDecreasing ==
    \A i, j \in 1..Len(tokens) :
        i < j => /\ tokens[i].line # None
                 /\ tokens[j].line # None
                 /\ tokens[i].line <= tokens[j].line

\* --------------------------------------------------------------------------
\* C7
\* --------------------------------------------------------------------------

\* the Header token of the setext rule for the line under the cursor
SetextToken(level) == BlockToken("header", strip(lines[pos + 1]), level, NoMeta, pos + 1)

\* C7: with the cursor on a plain text line followed by a line that holds
\* only =, the step emits exactly one Header of level 1 whose content is the
\* stripped text line and the cursor advances by 2 (nothing is emitted for
\* the underline); with an underline of - the level is 2; on the last line of
\* the document no Header is emitted.
C7_SetextHeader ==
    [][(InLoop /\ PlainText(lines, pos)) =>
          /\ Underlined(lines, pos, "=") => (Emits(SetextToken(1)) /\ pos' = pos + 2)
          /\ Underlined(lines, pos, "-") => (Emits(SetextToken(2)) /\ pos' = pos + 2)
          /\ pos + 1 = length =>
                \A k \in (Len(tokens) + 1)..Len(tokens') : tokens'[k].type # "header"]_vars

\* a Header of level 1 made of a text line and its underline was emitted
C7_Witness ==
    \E k \in 1..Len(tokens) :
        /\ tokens[k].type = "header"
        /\ tokens[k].level = 1
        /\ PlainText(lines, tokens[k].line - 1)
        /\ Underlined(lines, tokens[k].line - 1, "=")
        /\ tokens[k].content = strip(lines[tokens[k].line])
        /\ tokens[k].content = <<"a">>
        /\ pos = tokens[k].line + 1

\* --------------------------------------------------------------------------
\* C8
\* --------------------------------------------------------------------------

\* the Header token of a line that is an ATX header: the level is the number
\* of its hashes, the content is what follows them, stripped
AtxToken(line, n) ==
    BlockToken("header", strip(From(line, RunLen(line, 1, {"#"}) + 1)),
               RunLen(line, 1, {"#"}), NoMeta, n)

\* C8, as claimed: a line that is a valid ATX header always yields that
\* Header token, whatever the next line is.
C8_AsClaimed ==
    [][(InLoop /\ ATX_HEADER_RE(lines[pos + 1]) > 0)
          => (Emits(AtxToken(lines[pos + 1], pos + 1)) /\ pos' = pos + 1)]_vars

\* C8, amended: with the cursor on a line that is a valid ATX header, the
\* step emits the Header whose level is the number of hashes and whose
\* content excludes the marker, and consumes that line only, also when the
\* next line is a setext underline; unless the line holds a pipe and the
\* next line is a table separator: then the table rule, checked first,
\* takes it.
C8_AtxBeforeSetext ==
    [][(InLoop /\ ATX_HEADER_RE(lines[pos + 1]) > 0 /\ ~is_table_start(lines, pos))
          => (Emits(AtxToken(lines[pos + 1], pos + 1)) /\ pos' = pos + 1)]_vars

\* an ATX header that is followed by a setext underline was emitted
C8_Witness ==
    \E k \in 1..Len(tokens) :
        /\ tokens[k].type = "header"
        /\ ATX_HEADER_RE(lines[tokens[k].line]) = 2
        /\ tokens[k].level = 2
        /\ Underlined(lines, tokens[k].line - 1, "=")

\* --------------------------------------------------------------------------
\* C9
\* --------------------------------------------------------------------------

\* the indices of the pipes of s
Pipes(s) == {i \in 1..Len(s) : s[i] = "|"}

\* the k-th pipe of s
Pipe(s, k) == CHOOSE i \in Pipes(s) : Cardinality({j \in Pipes(s) : j < i}) = k - 1

\* s is written with a leading and a trailing pipe
Piped(s) == Len(s) >= 2 /\ s[1] = "|" /\ s[Len(s)] = "|"

\* the cells between the pipes of s, stripped, in source order
CellsBetweenPipes(s) ==
    [k \in 1..(Cardinality(Pipes(s)) - 1) |->
        strip(SubSeq(s, Pipe(s, k) + 1, Pipe(s, k + 1) - 1))]

\* C9: the header and every row of a Table token whose source line is written
\* with a leading and a trailing pipe hold exactly the cells between the
\* pipes, stripped, in source order, the empty ones included, however many
\* cells the header has.
C9_TableCells ==
    \A k \in 1..Len(tokens) :
        tokens[k].type = "table" =>
            LET n == tokens[k].line
                head == strip(lines[n])
            IN  /\ Piped(head) => tokens[k].meta.header = CellsBetweenPipes(head)
                /\ \A r \in 1..Len(tokens[k].meta.rows) :
                       Piped(strip(lines[n + 1 + r])) =>
                           tokens[k].meta.rows[r] = CellsBetweenPipes(strip(lines[n + 1 + r]))

\* a table whose row has three cells, the first and the last one empty, under
\* a header of two cells
C9_Witness ==
    \E k \in 1..Len(tokens) :
        /\ tokens[k].type = "table"
        /\ Len(tokens[k].meta.header) = 2
        /\ Len(tokens[k].meta.rows) = 1
        /\ tokens[k].meta.rows[1] = << <<>>, <<"a">>, <<>> >>

\* --------------------------------------------------------------------------
\* C10
\* --------------------------------------------------------------------------

\* the line l is a definition line: a bracketed id, a colon, whitespace, a url
DefinitionLine(l) ==
    LET e == Find(l, 2, {"]"})
    IN  /\ Len(l) >= 1 /\ l[1] = "["
        /\ e > 2 /\ e + 1 <= Len(l) /\ l[e + 1] = ":"
        /\ RunLen(l, e + 2, Ws) >= 1
        /\ strip(From(l, e + 2)) # <<>>

DefinitionId(l) == SubSeq(l, 2, Find(l, 2, {"]"}) - 1)
DefinitionUrl(l) == strip(From(l, Find(l, 2, {"]"}) + 2))

\* the line c of a content is a reference and nothing else: an optional bang,
\* a bracketed text, a bracketed id
ReferenceLine(c) ==
    LET b == IF Len(c) >= 1 /\ c[1] = "!" THEN 2 ELSE 1
        e == Find(c, b + 1, {"]"})
    IN  /\ Len(c) >= b /\ c[b] = "["
        /\ e + 1 <= Len(c) /\ c[e + 1] = "["
        /\ Find(c, e + 2, {"]"}) = Len(c)
        /\ Len(c) > e + 2

ReferenceIsImage(c) == c[1] = "!"
ReferenceText(c) ==
    SubSeq(c, IF c[1] = "!" THEN 3 ELSE 2, Find(c, IF c[1] = "!" THEN 3 ELSE 2, {"]"}) - 1)
ReferenceId(c) ==
    SubSeq(c, Find(c, IF c[1] = "!" THEN 3 ELSE 2, {"]"}) + 2, Len(c) - 1)

\* the definition line of the document for the id, any case: the last one
Defines(n, id) ==
    /\ DefinitionLine(lines[n])
    /\ lower(DefinitionId(lines[n])) = lower(id)
    /\ \A m \in (n + 1)..length :
          ~(DefinitionLine(lines[m]) /\ lower(DefinitionId(lines[m])) = lower(id))

\* the token t records the reference c as a link or an image to the url
Resolved(t, c, url) ==
    IF ReferenceIsImage(c)
    THEN \E i \in DOMAIN t.meta.image_links :
            t.meta.image_links[i] = [alt_text |-> ReferenceText(c), url |-> url]
    ELSE \E i \in DOMAIN t.meta.text_links :
            t.meta.text_links[i] = [text |-> ReferenceText(c), url |-> url]

\* the references of the token k: the lines of its content that are one
ReferencesIn(k) ==
    {c \in Range(split(tokens[k].content, NL)) : ReferenceLine(c)}

\* C10: once the analyzer is built, every reference-style link or image in a
\* Header, a Paragraph or a Blockquote is recorded with the url of the
\* definition line of its id, compared without case, wherever in the document
\* that line is: before the token or after it.
C10_ReferenceResolves ==
    pc = "analyzed" =>
        \A k \in 1..Len(tokens) : \A n \in 1..length :
            tokens[k].type \in inline_types =>
                \A c \in ReferencesIn(k) :
                    Defines(n, ReferenceId(c)) =>
                        Resolved(tokens[k], c, DefinitionUrl(lines[n]))

\* --------------------------------------------------------------------------
\* C11
\* --------------------------------------------------------------------------

\* the line c of a content is an inline link or image and nothing else
InlineLinkLine(c) ==
    LET b == IF Len(c) >= 1 /\ c[1] = "!" THEN 2 ELSE 1
        e == Find(c, b + 1, {"]"})
    IN  /\ Len(c) >= b /\ c[b] = "["
        /\ e + 1 <= Len(c) /\ c[e + 1] = "("
        /\ Find(c, e + 2, {")"}) = Len(c)
        /\ Len(c) > e + 2

\* the lines of the content of token k
ContentLines(k) == Range(split(tokens[k].content, NL))

\* the line c is a reference whose id the reference table does not hold
Unresolved(c) ==
    ReferenceLine(c) /\ lower(ReferenceId(c)) \notin DOMAIN references

\* the text_links and image_links entries of token k, as one set of records
\* [image, text, url]
LinkEntries(k) ==
    {[image |-> FALSE, text |-> e.text, url |-> e.url] :
        e \in Range(tokens[k].meta.text_links)}
    \cup {[image |-> TRUE, text |-> e.alt_text, url |-> e.url] :
             e \in Range(tokens[k].meta.image_links)}

\* the token k went through the inline scan
Scanned(k) == "text_links" \in DOMAIN tokens[k].meta

\* C11: once the analyzer is built, every entry of text_links and image_links
\* of every token has a url that is not empty, and a token holds no entry for
\* a reference-style link or image whose id is not in the reference table
\* (no entry carries its text, unless another link of the token does).
C11_UnresolvedYieldsNoEntry ==
    pc = "analyzed" =>
        \A k \in 1..Len(tokens) :
            Scanned(k) =>
                /\ \A e \in LinkEntries(k) : e.url # <<>> /\ e.url # NoneStr
                /\ \A c \in ContentLines(k) :
                      (/\ Unresolved(c)
                       /\ \A c2 \in ContentLines(k) :
                             (/\ ReferenceLine(c2) \/ InlineLinkLine(c2)
                              /\ ReferenceText(c2) = ReferenceText(c)
                              /\ ReferenceIsImage(c2) = ReferenceIsImage(c))
                                => Unresolved(c2))
                      => ~\E e \in LinkEntries(k) :
                            /\ e.text = ReferenceText(c)
                            /\ e.image = ReferenceIsImage(c)

\* a scanned paragraph holds an unresolved reference next to a link that is
\* recorded
C11_Witness ==
    /\ pc = "analyzed"
    /\ \E k \in 1..Len(tokens) :
          /\ Scanned(k)
          /\ \E c \in ContentLines(k) : Unresolved(c)
          /\ LinkEntries(k) # {}

\* --------------------------------------------------------------------------
\* C12
\* --------------------------------------------------------------------------

\* the index in t of the first use of the footnote id, written bracket,
\* caret, id, bracket; Len(t) + 1 if t has none
FirstUse(t, id) ==
    LET use == <<"[", "^">> \o id \o <<"]">>
        at == {p \in 1..Len(t) : p + Len(use) - 1 <= Len(t)
                                   /\ SubSeq(t, p, p + Len(use) - 1) = use}
    IN  IF at = {} THEN Len(t) + 1 ELSE CHOOSE p \in at : \A q \in at : p <= q

\* the number of uses of the footnote id in t
Uses(t, id) ==
    LET use == <<"[", "^">> \o id \o <<"]">>
    IN  Cardinality({p \in 1..Len(t) : p + Len(use) - 1 <= Len(t)
                                         /\ SubSeq(t, p, p + Len(use) - 1) = use})

\* C12: once the analyzer is built, footnotes_used of every token holds only
\* ids of the footnote table, with the content the table gives them, each id
\* at most once however often the content uses it, in the order in which the
\* ids are first used in the content.
C12_FootnotesUsedOnce ==
    pc = "analyzed" =>
        \A k \in 1..Len(tokens) :
            Scanned(k) =>
                LET used == tokens[k].meta.footnotes_used
                    content == tokens[k].content
                IN  /\ \A i \in DOMAIN used :
                          /\ used[i].id \in DOMAIN footnotes
                          /\ used[i].content = footnotes[used[i].id]
                          /\ FirstUse(content, used[i].id) <= Len(content)
                    /\ \A i, j \in DOMAIN used :
                          i < j => /\ used[i].id # used[j].id
                                   /\ FirstUse(content, used[i].id)
                                         < FirstUse(content, used[j].id)

\* a token that uses g, then f, then g again holds one entry for g, then
\* one for f
C12_Witness ==
    /\ pc = "analyzed"
    /\ \E k \in 1..Len(tokens) :
          /\ Scanned(k)
          /\ Uses(tokens[k].content, <<"g">>) >= 2
          /\ FirstUse(tokens[k].content, <<"g">>) < FirstUse(tokens[k].content, <<"f">>)
          /\ Len(tokens[k].meta.footnotes_used) = 2
          /\ tokens[k].meta.footnotes_used[1].id = <<"g">>
          /\ tokens[k].meta.footnotes_used[2].id = <<"f">>

\* --------------------------------------------------------------------------
\* C13
\* --------------------------------------------------------------------------

\* the outcomes known: those of the analyses before, and that of this one
\* once it is over
Outcomes == parsed \cup (IF Finished THEN {Outcome} ELSE {})

\* C13: analyses of the same text, each with a parser of its own and with
\* analyses of other documents between them, end the same way and give equal
\* token sequences, reference tables and footnote tables.
C13_SameTextSameOutcome ==
    \A a, b \in Outcomes : a.text = b.text => a = b

\* a text was analysed, another one was, and the first one is analysed again
C13_Witness ==
    /\ Finished
    /\ tokens # <<>>
    /\ Outcome \in parsed
    /\ \E b \in parsed : b.text # text /\ b.tokens # <<>>

\* --------------------------------------------------------------------------
\* C14
\* --------------------------------------------------------------------------

InlineFields ==
    {"text_links", "image_links", "inline_code", "emphasis", "footnotes_used",
     "html_inline"}

\* the text link of a future is one that the scan recorded in a Header, a
\* Paragraph or a Blockquote
FromInlineToken(link) ==
    \E k \in 1..Len(tokens) :
        /\ tokens[k].type \in inline_types
        /\ Scanned(k)
        /\ tokens[k].line = link.line
        /\ \E e \in Range(tokens[k].meta.text_links) :
              e.text = link.text /\ e.url = link.url

C16_TablesBuiltFirstThenFixed ==
    [][/\ references' = references
       /\ footnotes' = footnotes
       /\ (tokens = <<>> /\ tokens' # <<>>) =>
             /\ references = references_of(text)
             /\ footnotes = footnotes_of(text)]_vars

\* a document with a definition in each table was tokenized and scanned
C16_Witness ==
    /\ pc = "analyzed"
    /\ tokens # <<>>
    /\ references # <<>>
    /\ footnotes # <<>>
    /\ \E k \in 1..Len(tokens) : Scanned(k) /\ tokens[k].meta.footnotes_used # <<>>

\* --------------------------------------------------------------------------
\* C17
\* --------------------------------------------------------------------------

\* the token that the step appended
Emitted == tokens'[Len(tokens')]

\* the tag of the fence under the cursor p, trimmed
FenceTag(ls, p) == strip(From(strip(ls[p + 1]), 4))

\* C17: the Code token that the fenced rule emits has code_type "fenced"
\* and, as language, the trimmed tag of the opening fence, or null when the
\* fence has no tag; the Code token that the indented rule emits has
\* code_type "indented" and a null language.
C17_CodeMetaTypeAndLanguage ==
    [][/\ (At("fence") /\ Len(tokens') = Len(tokens) + 1) =>
             /\ Emitted.type = "code"
             /\ "code_type" \in DOMAIN Emitted.meta
             /\ Emitted.meta.code_type = "fenced"
             /\ Emitted.meta.language =
                   IF FenceTag(lines, pos) = <<>> THEN NoneStr ELSE FenceTag(lines, pos)
       /\ (At("indented") /\ Len(tokens') = Len(tokens) + 1) =>
             /\ Emitted.type = "code"
             /\ "code_type" \in DOMAIN Emitted.meta
             /\ Emitted.meta.code_type = "indented"
             /\ Emitted.meta.language = NoneStr]_vars

\* --------------------------------------------------------------------------
\* C18
\* --------------------------------------------------------------------------

\* the line under the cursor p opens a comment
CommentOpening(ls, p) == startswith(strip(ls[p + 1]), <<"<", "!", "-", "-">>)

\* the lines from the one under the cursor p on that close a comment
CommentClosers(ls, p) == {n \in (p + 1)..Len(ls) : HTML_BLOCK_END_COMMENT(ls[n])}

\* the lines after the one under the cursor p that are blank
BlankAfter(ls, p) == {n \in (p + 2)..Len(ls) : Blank(ls[n])}

\* the least member of a set of line numbers that is not empty
First(S) == CHOOSE n \in S : \A m \in S : n <= m

\* the HtmlBlock token that starts at the cursor p and runs through line e
HtmlThrough(ls, p, e) ==
    BlockToken("html_block", join(SubSeq(ls, p + 1, e), NL), None, NoMeta, p + 1)

\* C18: the HTML rule, at a line that opens a comment which some line
\* closes, emits one HtmlBlock token running through the first closing line
\* and leaves the cursor after it, blank lines inside the comment
\* notwithstanding; at a line that opens a tag it emits one HtmlBlock token
\* running to the line before the first blank line, or to the last line.
C18_HtmlBlockExtent ==
    [][At("html") =>
          /\ (CommentOpening(lines, pos) /\ CommentClosers(lines, pos) # {}) =>
                /\ pos' = First(CommentClosers(lines, pos))
                /\ Emits(HtmlThrough(lines, pos, pos'))
          /\ ~CommentOpening(lines, pos) =>
                /\ pos' = IF BlankAfter(lines, pos) # {}
                          THEN First(BlankAfter(lines, pos)) - 1 ELSE length
                /\ Emits(HtmlThrough(lines, pos, pos'))]_vars

\* --------------------------------------------------------------------------
\* C19
\* --------------------------------------------------------------------------

\* line n (from 1) of the document is the frontmatter delimiter
Delimiter(n) == FRONTMATTER_RE(strip(lines[n]))

\* the first token is a Frontmatter token whose opener no later line closes
UnclosedFrontmatter ==
    /\ tokens # <<>>
    /\ tokens[1].type = "frontmatter"
    /\ \A n \in 2..length : ~Delimiter(n)

\* C19: a Frontmatter token is the first token and the only one of its
\* type, and the first line of its document is the delimiter, so that no
\* later delimiter line opens a frontmatter; when no later line is a
\* delimiter the token holds all the lines after the first, the cursor is
\* at length, no error was raised and there is no other token.
C19_FrontmatterFirstLineOnly ==
    /\ \A k \in 1..Len(tokens) :
          tokens[k].type = "frontmatter" => k = 1 /\ Delimiter(1)
    /\ UnclosedFrontmatter =>
          /\ tokens[1].content = join(SubSeq(lines, 2, length), NL)
          /\ pos = length
          /\ pc # "error"
          /\ Len(tokens) = 1

\* an unclosed frontmatter swallowed two lines, the last of them text
C19_Witness ==
    /\ pc = "analyzed"
    /\ UnclosedFrontmatter
    /\ length = 3
    /\ lines[3] = <<"a">>

\* --------------------------------------------------------------------------
\* C20
\* --------------------------------------------------------------------------

\* the response that the last request made for future i ended with
Final(i) == futures[i].requests[Len(futures[i].requests)].response

\* future i was probed
Probed(i) == futures[i].requests # <<>>

\* the futures whose link was probed and whose final response is a transport
\* error or a status of 400 or more
Failed ==
    {i \in DOMAIN futures :
        Probed(i) /\ (Final(i).raised \/ Final(i).status_code >= 400)}

\* the entry that stands for future i in the list check_links returns
Entry(i) ==
    IF Final(i).raised
    THEN [url |-> futures[i].link.url, line |-> futures[i].link.line,
          text |-> futures[i].link.text, error |-> "RequestException"]
    ELSE [url |-> futures[i].link.url, line |-> futures[i].link.line,
          text |-> futures[i].link.text, status_code |-> Final(i).status_code]

\* the ways to pair the entries of the returned list with the futures of S,
\* one to one
Pairings(S) ==
    {f \in [DOMAIN broken_links -> S] :
        /\ \A i \in S : \E k \in DOMAIN broken_links : f[k] = i
        /\ \A k, l \in DOMAIN broken_links : f[k] = f[l] => k = l}

\* C20: when check_links returns, there was one future for each text link
\* of the document, the links probed are exactly those whose url starts with
\* http:// or https://, and the returned entries pair off, one to one, with
\* the probed links whose final response was a status of 400 or more (the
\* entry carries that status_code) or a transport error (the entry carries
\* error): no other link is returned.
C20_BrokenLinksExactlyFailedHttp ==
    pc = "checked" =>
        /\ [i \in DOMAIN futures |-> futures[i].link] = identify_links(tokens)
        /\ \A i \in DOMAIN futures : Probed(i) <=> is_http(futures[i].link.url)
        /\ \E f \in Pairings(Failed) :
              \A k \in DOMAIN broken_links : broken_links[k] = Entry(f[k])

\* check_links returned after it skipped a link that is not http and probed
\* another with HEAD, answered 405, then GET, answered 400, which it returns
C20_Witness ==
    /\ pc = "checked"
    /\ Len(broken_links) = 1
    /\ \E i, j \in DOMAIN futures :
          /\ ~Probed(i)
          /\ Len(futures[j].requests) = 2
          /\ futures[j].requests[1].response.status_code = 405
          /\ futures[j].requests[2].method = "GET"
          /\ Final(j).status_code = 400
          /\ "status_code" \in DOMAIN broken_links[1]

\* --------------------------------------------------------------------------
\* C21
\* --------------------------------------------------------------------------

\* the futures that as_completed has yielded
Yielded == {i \in DOMAIN futures : futures[i].at = "yielded"}

\* how many entries of the list equal e
Occurrences(e) == Cardinality({k \in DOMAIN broken_links : broken_links[k] = e})

\* C21: while check_links collects, and when it has returned, whatever the
\* order in which the probes ran and completed, the list holds each entry
\* as many times as there are yielded futures with a failed final response
\* that it stands for, and nothing else; a probe that ended with a
\* transport error has that link's entry with error as its result; and
\* check_links returns only once every future was yielded, each http(s)
\* link probed, whatever the other probes ended with.
C21_ResultsIndependentOfSchedule ==
    pc \in {"checking", "checked"} =>
        /\ \A i \in Yielded \cap Failed : Occurrences(Entry(i)) =
              Cardinality({j \in Yielded \cap Failed : Entry(j) = Entry(i)})
        /\ \A k \in DOMAIN broken_links :
              \E i \in Yielded \cap Failed : broken_links[k] = Entry(i)
        /\ \A i \in DOMAIN futures :
              (futures[i].at \in {"done", "yielded"} /\ Probed(i) /\ Final(i).raised) =>
                 futures[i].result = Entry(i) /\ "error" \in DOMAIN futures[i].result
        /\ pc = "checked" =>
              \A i \in DOMAIN futures :
                 i \in Yielded /\ (is_http(futures[i].link.url) => Probed(i))

\* check_links returned two entries in the reverse of the order of the
\* links: the probe of the first link raised, the second was answered 400
\* and completed first
C21_Witness ==
    /\ pc = "checked"
    /\ Len(futures) = 2
    /\ Len(broken_links) = 2
    /\ Final(1).raised
    /\ ~Final(2).raised /\ Final(2).status_code = 400
    /\ broken_links[1] = Entry(2)
    /\ broken_links[2] = Entry(1)

\* --------------------------------------------------------------------------
\* C22
\* --------------------------------------------------------------------------

\* every request was made for a queue entry of depth max_depth at most, a
\* stored page is one that was requested, and a stored page other than the
\* base URL has a web scheme and the host of the base URL
StoredWithinDepthAndDomain ==
    /\ \A k \in DOMAIN requested : requested[k].depth <= max_depth
    /\ \A u \in DOMAIN pages : \E k \in DOMAIN requested : requested[k].url = u
    /\ \A u \in DOMAIN pages \ {base_url} :
          u.scheme \in {"http", "https"} /\ u.netloc = base_url.netloc

\* C22: at every moment of a crawl the stored pages were dequeued at a
\* depth of max_depth at most and, the base URL apart, have an http or
\* https URL on the domain of the base URL; and the crawl ends: scrape()
\* returns.
C22_BoundedSameDomainCrawl ==
    []StoredWithinDepthAndDomain /\ <>(pc = "scraped")

\* scrape() returned two pages, the base URL's with a link to another host,
\* and a page at depth max_depth whose link to a deeper page was not followed
C22_Witness ==
    /\ pc = "scraped"
    /\ max_depth = 1
    /\ Cardinality(DOMAIN pages) = 2
    /\ \E i \in DOMAIN pages[base_url] : pages[base_url][i].netloc = "o"
    /\ \E u \in DOMAIN pages \ {base_url} :
          \E i \in DOMAIN pages[u] : pages[u][i] = Url("", "", <<"a", "/">>)

\* --------------------------------------------------------------------------
\* C30
\* --------------------------------------------------------------------------

\* C30: in a run of scrape() no URL is requested twice, whether its request
\* succeeded or failed, and the keys of pages are the visited set.
C30_EachUrlRequestedOnce ==
    /\ \A k, l \in DOMAIN requested : requested[k].url = requested[l].url => k = l
    /\ DOMAIN pages = visited

\* --------------------------------------------------------------------------
\* C23
\* --------------------------------------------------------------------------

\* the line after the one under the cursor p exists and holds only = or
\* only -
UnderlinedEither(ls, p) == Underlined(ls, p, "=") \/ Underlined(ls, p, "-")

\* the start conditions of the ten block rules on the line under the cursor
\* p, in the order of the claim
Starts(ls, p) ==
    LET line == ls[p + 1]
    IN  << Indented(line),
           is_table_start(ls, p),
           is_html_block_start(line),
           ATX_HEADER_RE(line) > 0,
           UnderlinedEither(ls, p),
           HR_RE(strip(line)),
           FENCE_RE(strip(line)),
           BLOCKQUOTE_RE(line),
           ORDERED_LIST_RE(line) > 0 \/ UNORDERED_LIST_RE(line) > 0,
           TRUE >>

\* the first rule, by its place in the order, whose start condition holds
FirstRule(ls, p) ==
    CHOOSE i \in 1..10 : Starts(ls, p)[i] /\ \A j \in 1..(i - 1) : ~Starts(ls, p)[j]

\* the types of the token each rule emits, in the same order
Kinds ==
    << {"code"}, {"table"}, {"html_block"}, {"header"}, {"header"}, {"hr"}, {"code"},
       {"blockquote"}, {"ordered_list", "unordered_list"}, {"paragraph"} >>

\* the step moved the cursor, emitted a token or raised
RuleApplied == pos' # pos \/ tokens' # tokens \/ pc' = "error"

\* the step appended one token at most, of the type of the first rule that
\* starts on the line under the cursor, the cursor moving by 2 for the
\* setext rule and by 1 for the ATX and thematic-break rules; a line with a
\* pipe before a separator line gave a Table; a thematic-break, fence,
\* blockquote or list-item line before an underline gave a Header whose
\* content is the line. The last two are stated of every line if Anywhere,
\* else of the lines that are not indented.
FirstRuleApplied(Anywhere) ==
    LET line == lines[pos + 1]
    IN  /\ Len(tokens') <= Len(tokens) + 1
        /\ Len(tokens') = Len(tokens) + 1 =>
              /\ SubSeq(tokens', 1, Len(tokens)) = tokens
              /\ Emitted.type \in Kinds[FirstRule(lines, pos)]
              /\ FirstRule(lines, pos) = 5 => pos' = pos + 2
              /\ FirstRule(lines, pos) \in {4, 6} => pos' = pos + 1
        /\ (/\ Anywhere \/ ~Indented(line)
            /\ "|" \in Range(line)
            /\ pos + 1 < length /\ TABLE_SEPARATOR_RE(strip(lines[pos + 2]))) =>
              /\ Len(tokens') = Len(tokens) + 1
              /\ Emitted.type = "table"
        /\ (/\ Anywhere \/ ~Indented(line)
            /\ \/ HR_RE(strip(line))
               \/ FENCE_RE(strip(line))
               \/ BLOCKQUOTE_RE(line)
               \/ ORDERED_LIST_RE(line) > 0 \/ UNORDERED_LIST_RE(line) > 0
            /\ UnderlinedEither(lines, pos)) =>
              /\ Len(tokens') = Len(tokens) + 1
              /\ Emitted.type = "header"
              /\ Emitted.content = strip(line)
              /\ pos' = pos + 2

\* C23 as claimed: at every cursor position that holds a non-blank line,
\* the first position included, the rule applied is the first of the ten
\* whose start condition holds, so that a line with a pipe before a
\* separator line gives a Table and a thematic-break, fence, blockquote or
\* list-item line before an underline gives a setext Header.
C23_AsClaimed ==
    [][(/\ pc \in {"start", "loop"}
        /\ pos < length
        /\ ~Blank(lines[pos + 1])
        /\ RuleApplied) => FirstRuleApplied(TRUE)]_vars

\* C23: in every iteration of the main loop with the cursor on a non-blank
\* line, which leaves out a --- line at position 0, taken by the
\* frontmatter rule before the loop, the rule applied is the first of the
\* ten whose start condition holds; so a line with a pipe before a
\* separator line gives a Table, and a thematic-break, fence, blockquote or
\* list-item line before an underline gives a setext Header, unless the
\* line is indented and so is code.
C23_FirstMatchingRuleInLoop ==
    [][(InLoop /\ ~Blank(lines[pos + 1]) /\ RuleApplied) => FirstRuleApplied(FALSE)]_vars

\* a list item before an underline became a setext Header
C23_Witness ==
    /\ pc = "analyzed"
    /\ \E k \in 1..Len(tokens) :
          /\ tokens[k].type = "header"
          /\ tokens[k].level = 2
          /\ tokens[k].content = <<"-", " ", "a">>
          /\ tokens[k].line = 2

\* --------------------------------------------------------------------------
\* C24
\* --------------------------------------------------------------------------

\* C24: the step that raises the unclosed-fence error leaves the cursor on
\* the opening fence line, whose number the error carries, and leaves the
\* token list as it was; in the state it reaches no token has consumed the
\* fence line or a later line, and every token that carries a line carries
\* one before the fence.
C24_ErrorKeepsCursorAndTokens ==
    [][pc' = "error" =>
          /\ InLoop
          /\ FenceOpening(lines, pos)
          /\ pos' = pos
          /\ err' = pos + 1
          /\ tokens' = tokens
          /\ \A n \in (pos' + 1)..length : covered'[n] = 0
          /\ \A k \in 1..Len(tokens') :
                tokens'[k].line # None => tokens'[k].line <= pos']_vars

\* the error was raised at a fence on the third line, after a token
C24_Witness ==
    /\ pc = "error"
    /\ pos = 2
    /\ err = 3
    /\ tokens # <<>>
    /\ covered[1] = 1

\* --------------------------------------------------------------------------
\* C25
\* --------------------------------------------------------------------------

\* the line, stripped, starts a block that is not a list
StartsOtherBlock(line) ==
    /\ starts_new_block(strip(line))
    /\ ~(ORDERED_LIST_RE(strip(line)) > 0 \/ UNORDERED_LIST_RE(strip(line)) > 0)

\* the lines after the one under the cursor p that are not blank and start
\* a block that is not a list
ListEnders(ls, p) == {n \in (p + 2)..Len(ls) : ~Blank(ls[n]) /\ StartsOtherBlock(ls[n])}

\* the number of the last line of the list run that starts under the cursor p
RunEnd(ls, p) == IF ListEnders(ls, p) # {} THEN First(ListEnders(ls, p)) - 1 ELSE Len(ls)

\* the lines of the run that start an item: the first, each line that
\* matches the item pattern of the kind, and each other non-blank line that
\* follows a blank line
ItemStarts(ls, p, ordered) ==
    {n \in (p + 1)..RunEnd(ls, p) :
        /\ ~Blank(ls[n])
        /\ \/ n = p + 1
           \/ list_pattern(ordered, ls[n]) > 0
           \/ Blank(ls[n - 1])}

\* C25: the list rule emits exactly one token, an OrderedList if the line
\* under the cursor matches the ordered item pattern and an UnorderedList
\* otherwise; it leaves the cursor after the run, which ends before the
\* first later non-blank line that starts a block other than a list, or at
\* the end of the document, blank lines not ending it; and the token has as
\* many items as the run has lines that start one.
C25_OneListTokenPerRun ==
    [][At("list") =>
          LET ordered == ORDERED_LIST_RE(lines[pos + 1]) > 0
          IN  /\ Len(tokens') = Len(tokens) + 1
              /\ Emitted.type = IF ordered THEN "ordered_list" ELSE "unordered_list"
              /\ pos' = RunEnd(lines, pos)
              /\ Len(Emitted.meta.items) = Cardinality(ItemStarts(lines, pos, ordered))]_vars

\* --------------------------------------------------------------------------
\* C26
\* --------------------------------------------------------------------------

\* C26: a step of the paragraph rule that takes no line, the line under the
\* cursor starting a block once stripped, moves the cursor by exactly 1 and
\* emits nothing; any other step of the rule emits one Paragraph token with
\* the cursor line as its line, whose content is not empty, is trimmed and
\* begins with the line under the cursor; and every Paragraph token of the
\* list the step leaves has content.
C26_ParagraphAdvancesOrEmits ==
    [][At("paragraph") =>
          /\ starts_new_block(strip(lines[pos + 1])) =>
                pos' = pos + 1 /\ tokens' = tokens
          /\ ~starts_new_block(strip(lines[pos + 1])) =>
                /\ Len(tokens') = Len(tokens) + 1
                /\ SubSeq(tokens', 1, Len(tokens)) = tokens
                /\ Emitted.type = "paragraph"
                /\ Emitted.line = pos + 1
                /\ Emitted.content # <<>>
                /\ Emitted.content = strip(Emitted.content)
                /\ strip(split(Emitted.content, NL)[1]) = strip(lines[pos + 1])
                /\ pos' > pos
          /\ \A k \in 1..Len(tokens') :
                tokens'[k].type = "paragraph" => strip(tokens'[k].content) # <<>>]_vars

\* a document whose only line that is not blank the paragraph rule stepped
\* over without a token, and which was parsed to its end
C26_Witness ==
    /\ pc = "analyzed"
    /\ pos = length
    /\ tokens = <<>>
    /\ length = 2
    /\ lines[1] = <<"=">>

\* --------------------------------------------------------------------------
\* C27
\* --------------------------------------------------------------------------

\* C27: every iteration of the loop of MDXMarkdownParser.parse moves the
\* cursor forward and raises nothing, whatever the lines between the fences.
C27_MDXNeverRaises ==
    [][(pc = "mdx" /\ pos < length) => (pc' # "error" /\ pos' > pos)]_vars

\* --------------------------------------------------------------------------
\* C28
\* --------------------------------------------------------------------------

\* the line l is a footnote definition line: its bracketed id starts with
\* a caret
FootnoteDefinitionLine(l) == DefinitionLine(l) /\ l[2] = "^"

\* C28: the keys of the reference table are the lower-cased ids of the
\* definition lines of the document that are not footnote definitions, and
\* none of them comes from a footnote definition line, whose id goes to the
\* footnote table only.
C28_FootnoteDefinitionsOnlyInFootnotes ==
    /\ DOMAIN references =
          {lower(DefinitionId(lines[n])) :
              n \in {m \in 1..length :
                        DefinitionLine(lines[m]) /\ ~FootnoteDefinitionLine(lines[m])}}
    /\ \A n \in 1..length :
          FootnoteDefinitionLine(lines[n]) =>
             /\ From(DefinitionId(lines[n]), 2) \in DOMAIN footnotes
             /\ lower(DefinitionId(lines[n])) \notin DOMAIN references

\* --------------------------------------------------------------------------
\* C29
\* --------------------------------------------------------------------------

\* the server rejected the HEAD request of future i: it answered 405
HeadRejected(i) ==
    /\ Probed(i)
    /\ ~futures[i].requests[1].response.raised
    /\ futures[i].requests[1].response.status_code = 405

\* check_single_link of future i has returned
Returned(i) == futures[i].at \in {"done", "yielded"}

\* C29: the requests made for a link are a HEAD, followed by a GET if and
\* only if the HEAD was rejected and the call has gone on, and nothing
\* more; a call that has returned after a rejected HEAD has made the GET
\* and returns what the answer to the GET gives: no entry for a status
\* below 400, else the entry with the status of the GET or with its error.
C29_GetAfterRejectedHead ==
    \A i \in DOMAIN futures :
        /\ Len(futures[i].requests) <= 2
        /\ Probed(i) => futures[i].requests[1].method = "HEAD"
        /\ Len(futures[i].requests) = 2 =>
              HeadRejected(i) /\ futures[i].requests[2].method = "GET"
        /\ (Probed(i) /\ HeadRejected(i)) =>
              \/ futures[i].at = "get" /\ Len(futures[i].requests) = 1
              \/ /\ Returned(i)
                 /\ Len(futures[i].requests) = 2
                 /\ futures[i].result =
                       IF ~Final(i).raised /\ Final(i).status_code < 400
                       THEN <<>> ELSE Entry(i)

\* check_links returned nothing for the one link it probed, whose HEAD was
\* rejected and whose GET was answered 200
C29_Witness ==
    /\ pc = "checked"
    /\ broken_links = <<>>
    /\ \E i \in DOMAIN futures :
          /\ HeadRejected(i)
          /\ Len(futures[i].requests) = 2
          /\ Final(i).status_code = 200

====
